---- MODULE Spec2Model ----
(***************************************************************************)
(* Model of the math-riddle backend: the tag-extraction-and-repair         *)
(* pipeline of app/generator.py (sanitizer, tag extractor, validators,     *)
(* conversational requester, deterministic fallback, batch orchestrator).  *)
(*                                                                         *)
(* A text (Python str) is a sequence of characters.  A character is a      *)
(* one-character string; a non-ASCII character is written by its code      *)
(* point, e.g. "U017C" for LATIN SMALL LETTER Z WITH DOT ABOVE.            *)
(* The grave accent (the code-fence character) is written "U0060".         *)
(* An Optional[str] is the empty sequence (None) or a one-element          *)
(* sequence holding the text.                                              *)
(***************************************************************************)
EXTENDS Integers, Sequences, FiniteSets, TLC

Min(S) == CHOOSE m \in S : \A k \in S : m <= k

Max(S) == CHOOSE m \in S : \A k \in S : m >= k

None == << >>

Some(t) == << t >>

(***************************************************************************)
(* Python str primitives used by the generator.                            *)
(***************************************************************************)
UpperChars ==
  << "A", "B", "C", "D", "E", "F", "G", "H", "I", "J", "K", "L", "M",
     "N", "O", "P", "Q", "R", "S", "T", "U", "V", "W", "X", "Y", "Z",
     "U0104", "U0106", "U0118", "U0141", "U0143", "U00D3", "U015A",
     "U0179", "U017B" >>

LowerChars ==
  << "a", "b", "c", "d", "e", "f", "g", "h", "i", "j", "k", "l", "m",
     "n", "o", "p", "q", "r", "s", "t", "u", "v", "w", "x", "y", "z",
     "U0105", "U0107", "U0119", "U0142", "U0144", "U00F3", "U015B",
     "U017A", "U017C" >>

Digits == << "0", "1", "2", "3", "4", "5", "6", "7", "8", "9" >>

IsDigit(c) == \E k \in 1..10 : Digits[k] = c

IsAsciiAlpha(c) ==
  \E k \in 1..26 : UpperChars[k] = c \/ LowerChars[k] = c

\* str.lower() on one character
LowerChar(c) ==
  IF \E k \in 1..Len(UpperChars) : UpperChars[k] = c
    THEN LowerChars[CHOOSE k \in 1..Len(UpperChars) : UpperChars[k] = c]
    ELSE c

\* str.lower()
Lower(s) == [k \in 1..Len(s) |-> LowerChar(s[k])]

\* whitespace as str.strip() and the regular expression class \s see it
IsSpace(c) == c \in {" ", "\n", "\t", "\r", "\f", "U00A0"}

\* str.strip()
Strip(s) ==
  LET keep == {k \in 1..Len(s) : ~IsSpace(s[k])}
  IN  IF keep = {} THEN << >> ELSE SubSeq(s, Min(keep), Max(keep))

\* s[i:i+len(p)] == p
MatchAt(s, i, p) ==
  /\ i >= 1
  /\ i + Len(p) - 1 <= Len(s)
  /\ \A j \in 1..Len(p) : s[i + j - 1] = p[j]

\* the same under re.IGNORECASE
MatchAtCI(s, i, p) ==
  /\ i >= 1
  /\ i + Len(p) - 1 <= Len(s)
  /\ \A j \in 1..Len(p) : LowerChar(s[i + j - 1]) = LowerChar(p[j])

\* p in s
Contains(s, p) == \E i \in 1..(Len(s) - Len(p) + 1) : MatchAt(s, i, p)

\* the first index >= i that holds no whitespace (Len(s) + 1 when none): \s*
SkipWs(s, i) ==
  Min({k \in i..(Len(s) + 1) : k = Len(s) + 1 \/ ~IsSpace(s[k])})

\* the first index >= i at which p starts, 0 when there is none
IndexFrom(s, p, i) ==
  LET hits == {k \in i..(Len(s) - Len(p) + 1) : MatchAt(s, k, p)}
  IN  IF hits = {} THEN 0 ELSE Min(hits)

\* str(v) for a small natural number
IntToText(v) ==
  IF v < 10 THEN << Digits[v + 1] >>
  ELSE IF v < 100 THEN << Digits[(v \div 10) + 1], Digits[(v % 10) + 1] >>
  ELSE << Digits[(v \div 100) + 1], Digits[((v \div 10) % 10) + 1],
          Digits[(v % 10) + 1] >>

(***************************************************************************)
(* Text Sanitizer: html.unescape and the code-fence stripper.              *)
(***************************************************************************)
\* the printable ASCII characters, code points 32..126 in order
Ascii ==
  <<
     " ", "!", "\"", "#", "$", "%", "&", "'", "(", ")", "*", "+",
     ",", "-", ".", "/", "0", "1", "2", "3", "4", "5", "6", "7",
     "8", "9", ":", ";", "<", "=", ">", "?", "@", "A", "B", "C",
     "D", "E", "F", "G", "H", "I", "J", "K", "L", "M", "N", "O",
     "P", "Q", "R", "S", "T", "U", "V", "W", "X", "Y", "Z", "[",
     "\\", "]", "^", "_", "U0060", "a", "b", "c", "d", "e", "f", "g",
     "h", "i", "j", "k", "l", "m", "n", "o", "p", "q", "r", "s",
     "t", "u", "v", "w", "x", "y", "z", "{", "|", "}", "~" >>

\* chr(num) as html.unescape replaces a numeric character reference; code
\* points outside printable ASCII other than tab and line feed are written
\* as the replacement character
CodePointChar(num) ==
  IF num >= 32 /\ num <= 126 THEN Ascii[num - 31]
  ELSE IF num = 10 THEN "\n"
  ELSE IF num = 9 THEN "\t"
  ELSE "UFFFD"

\* the entries of html.entities.html5 the model knows: name -> character
Html5 ==
  << << <<"a", "m", "p", ";">>, "&" >>, << <<"a", "m", "p">>, "&" >>,
     << <<"l", "t", ";">>, "<" >>, << <<"l", "t">>, "<" >>,
     << <<"g", "t", ";">>, ">" >>, << <<"g", "t">>, ">" >>,
     << <<"q", "u", "o", "t", ";">>, "\"" >>, << <<"q", "u", "o", "t">>, "\"" >>,
     << <<"n", "b", "s", "p", ";">>, "U00A0" >>, << <<"n", "b", "s", "p">>, "U00A0" >>,
     << <<"a", "p", "o", "s", ";">>, "'" >> >>

InHtml5(name) == \E k \in 1..Len(Html5) : Html5[k][1] = name

Html5Char(name) == Html5[CHOOSE k \in 1..Len(Html5) : Html5[k][1] = name][2]

\* int() of a run of decimal digits
RECURSIVE DigitsValue(_)
DigitsValue(d) ==
  IF d = << >> THEN 0
  ELSE 10 * DigitsValue(SubSeq(d, 1, Len(d) - 1))
       + ((CHOOSE k \in 1..10 : Digits[k] = d[Len(d)]) - 1)

\* [^\t\n\f <&#;]
IsNameChar(c) == c \notin {"\t", "\n", "\f", " ", "<", "&", "#", ";"}

\* the end of the maximal run from i of characters satisfying the class
\* (i - 1 when the run is empty), at most cap characters long
RunEnd(s, i, cap, Class(_)) ==
  LET stop == {k \in i..(Len(s) + 1) :
                 k = Len(s) + 1 \/ k = i + cap \/ ~Class(s[k])}
  IN  Min(stop) - 1

\* _replace_charref for a named reference nm (with its optional ";")
ReplaceNamed(nm) ==
  IF InHtml5(nm) THEN << Html5Char(nm) >>
  ELSE LET pre == {k \in 2..(Len(nm) - 1) : InHtml5(SubSeq(nm, 1, k))}
       IN  IF pre = {} THEN <<"&">> \o nm
           ELSE << Html5Char(SubSeq(nm, 1, Max(pre))) >>
                \o SubSeq(nm, Max(pre) + 1, Len(nm))

\* the match of _charref at the "&" at index a: << end index, replacement >>,
\* or << 0, <<>> >> when the pattern does not match there
CharRefAt(s, a) ==
  IF a + 1 > Len(s) THEN << 0, << >> >>
  ELSE IF s[a + 1] = "#"
    THEN LET e == RunEnd(s, a + 2, Len(s), IsDigit)
         IN  IF e < a + 2 THEN << 0, << >> >>
             ELSE LET semi == e + 1 <= Len(s) /\ s[e + 1] = ";"
                  IN  << IF semi THEN e + 1 ELSE e,
                         << CodePointChar(DigitsValue(SubSeq(s, a + 2, e))) >> >>
  ELSE LET e == RunEnd(s, a + 1, 32, IsNameChar)
       IN  IF e < a + 1 THEN << 0, << >> >>
           ELSE LET semi == e + 1 <= Len(s) /\ s[e + 1] = ";"
                    stop == IF semi THEN e + 1 ELSE e
                IN  << stop, ReplaceNamed(SubSeq(s, a + 1, stop)) >>

\* _charref.sub(_replace_charref, s) from index i on
RECURSIVE UnescapeFrom(_, _)
UnescapeFrom(s, i) ==
  LET a == IndexFrom(s, <<"&">>, i)
  IN  IF a = 0 THEN SubSeq(s, i, Len(s))
      ELSE LET m == CharRefAt(s, a)
           IN  IF m[1] = 0
                 THEN SubSeq(s, i, a) \o UnescapeFrom(s, a + 1)
                 ELSE SubSeq(s, i, a - 1) \o m[2] \o UnescapeFrom(s, m[1] + 1)

html_unescape(s) == UnescapeFrom(s, 1)

Fence == <<"U0060", "U0060", "U0060">>

\* [a-zA-Z0-9_+\-]
IsFenceLangChar(c) == IsAsciiAlpha(c) \/ IsDigit(c) \/ c \in {"_", "+", "-"}

\* the match at index k of ```[a-zA-Z0-9_+\-]*\n(.*?)``` :
\* << first index of group 1, index of the closing fence >>, or << 0, 0 >>
LangFenceAt(s, k) ==
  IF ~MatchAt(s, k, Fence) THEN << 0, 0 >>
  ELSE LET e == RunEnd(s, k + 3, Len(s), IsFenceLangChar)
       IN  IF e + 1 > Len(s) \/ s[e + 1] # "\n" THEN << 0, 0 >>
           ELSE LET c == IndexFrom(s, Fence, e + 2)
                IN  IF c = 0 THEN << 0, 0 >> ELSE << e + 2, c >>

\* the match at index k of ```(.*?)```
BareFenceAt(s, k) ==
  IF ~MatchAt(s, k, Fence) THEN << 0, 0 >>
  ELSE LET c == IndexFrom(s, Fence, k + 3)
       IN  IF c = 0 THEN << 0, 0 >> ELSE << k + 3, c >>

FenceAt(s, k, lang) == IF lang THEN LangFenceAt(s, k) ELSE BareFenceAt(s, k)

\* re.sub(pattern, r"\1", s) from index i on; lang chooses the pattern
RECURSIVE SubFence(_, _, _)
SubFence(s, i, lang) ==
  LET hits == {k \in i..Len(s) : FenceAt(s, k, lang)[1] # 0}
  IN  IF hits = {} THEN SubSeq(s, i, Len(s))
      ELSE LET k == Min(hits)
               m == FenceAt(s, k, lang)
           IN  SubSeq(s, i, k - 1) \o SubSeq(s, m[1], m[2] - 1)
               \o SubFence(s, m[2] + 3, lang)

_strip_code_fences_fully(s) ==
  SubFence(SubFence(s, 1, TRUE), 1, FALSE)

_sanitize(s) == _strip_code_fences_fully(html_unescape(s))

(***************************************************************************)
(* Tag Extractor.                                                          *)
(***************************************************************************)
\* a tag name as the text interpolated into the patterns and prompts
TagChars ==
  [ problem |-> <<"p", "r", "o", "b", "l", "e", "m">>,
    solution_outline |-> <<"s", "o", "l", "u", "t", "i", "o", "n", "_", "o", "u", "t", "l", "i", "n", "e">>,
    sanity_check |-> <<"s", "a", "n", "i", "t", "y", "_", "c", "h", "e", "c", "k">>,
    unambiguous |-> <<"u", "n", "a", "m", "b", "i", "g", "u", "o", "u", "s">>,
    difficulty_ok |-> <<"d", "i", "f", "f", "i", "c", "u", "l", "t", "y", "_", "o", "k">>,
    insight_present |-> <<"i", "n", "s", "i", "g", "h", "t", "_", "p", "r", "e", "s", "e", "n", "t">>,
    difficulty_score |-> <<"d", "i", "f", "f", "i", "c", "u", "l", "t", "y", "_", "s", "c", "o", "r", "e">>,
    revised_problem |-> <<"r", "e", "v", "i", "s", "e", "d", "_", "p", "r", "o", "b", "l", "e", "m">> ]

_ALIAS_MAP ==
  [ problem |->
      << <<"p", "r", "o", "b", "l", "e", "m">>,
         <<"z", "a", "d", "a", "n", "i", "e">>,
         <<"t", "r", "e", "s", "c">>,
         <<"t", "r", "e", "U015B", "U0107">> >>,
    solution_outline |->
      << <<"s", "o", "l", "u", "t", "i", "o", "n", "_", "o", "u", "t", "l", "i", "n", "e">>,
         <<"s", "o", "l", "u", "t", "i", "o", "n", "-", "o", "u", "t", "l", "i", "n", "e">>,
         <<"o", "u", "t", "l", "i", "n", "e">>,
         <<"s", "z", "k", "i", "c">>,
         <<"s", "z", "k", "i", "c", "_", "r", "o", "z", "w", "i", "a", "z", "a", "n", "i", "a">>,
         <<"s", "z", "k", "i", "c", "-", "r", "o", "z", "w", "i", "U0105", "z", "a", "n", "i", "a">>,
         <<"s", "k", "e", "t", "c", "h">> >>,
    sanity_check |->
      << <<"s", "a", "n", "i", "t", "y", "_", "c", "h", "e", "c", "k">>,
         <<"s", "a", "n", "i", "t", "y">>,
         <<"w", "e", "r", "y", "f", "i", "k", "a", "c", "j", "a">>,
         <<"s", "p", "r", "a", "w", "d", "z", "e", "n", "i", "e">> >> ]

\* _ALIAS_MAP.get(target, [target])
AliasesOf(target) ==
  IF target \in DOMAIN _ALIAS_MAP THEN _ALIAS_MAP[target]
  ELSE << TagChars[target] >>

\* <\s*name\s*> matched at index i: the index of its ">", or 0
OpenTagEnd(s, i, name) ==
  IF i > Len(s) \/ s[i] # "<" THEN 0
  ELSE LET j == SkipWs(s, i + 1)
       IN  IF ~MatchAtCI(s, j, name) THEN 0
           ELSE LET k == SkipWs(s, j + Len(name))
                IN  IF k <= Len(s) /\ s[k] = ">" THEN k ELSE 0

\* </\s*name\s*> matched at index c: the index of its ">", or 0
CloseTagEnd(s, c, name) ==
  IF c + 1 > Len(s) \/ s[c] # "<" \/ s[c + 1] # "/" THEN 0
  ELSE LET j == SkipWs(s, c + 2)
       IN  IF ~MatchAtCI(s, j, name) THEN 0
           ELSE LET k == SkipWs(s, j + Len(name))
                IN  IF k <= Len(s) /\ s[k] = ">" THEN k ELSE 0

\* the first index >= from at which the closing tag matches, or 0
CloseTagFrom(s, from, name) ==
  LET hits == {c \in from..Len(s) : CloseTagEnd(s, c, name) # 0}
  IN  IF hits = {} THEN 0 ELSE Min(hits)

\* _make_tag_pattern(name).search(s): group 1 of the leftmost match of
\* <\s*name\s*>(.*?)</\s*name\s*> under DOTALL | IGNORECASE, or None
_make_tag_pattern(s, name) ==
  LET starts == {i \in 1..Len(s) :
                   /\ OpenTagEnd(s, i, name) # 0
                   /\ CloseTagFrom(s, OpenTagEnd(s, i, name) + 1, name) # 0}
  IN  IF starts = {} THEN None
      ELSE LET e == OpenTagEnd(s, Min(starts), name)
               c == CloseTagFrom(s, e + 1, name)
           IN  Some(SubSeq(s, e + 1, c - 1))

\* the heading cues of the two soft-headed fields, in the order of the
\* alternation; the first cue of an outline may be followed by the word
\* of OutlineCueTail
OutlineCues ==
  << <<"S", "z", "k", "i", "c">>, <<"O", "u", "t", "l", "i", "n", "e">>, <<"S", "k", "e", "t", "c", "h">> >>

OutlineCueTail == <<"r", "o", "z", "w", "i", "U0105", "z", "a", "n", "i", "a">>

SanityCues ==
  << <<"S", "a", "n", "i", "t", "y">>,
     <<"W", "e", "r", "y", "f", "i", "k", "a", "c", "j", "a">>,
     <<"S", "p", "r", "a", "w", "d", "z", "e", "n", "i", "e">> >>

\* \s*:\s*(.+) matched from index p: the first index of the group, or 0.
\* The greedy \s* gives back one character when only whitespace follows
\* the colon.
ColonRest(s, p) ==
  LET q == SkipWs(s, p)
  IN  IF q > Len(s) \/ s[q] # ":" THEN 0
      ELSE IF SkipWs(s, q + 1) <= Len(s) THEN SkipWs(s, q + 1)
      ELSE IF q + 1 <= Len(s) THEN Len(s)
      ELSE 0

\* (Szkic(?:\s+rozwiazania)?|Outline|Sketch)\s*:\s*(.+) matched at index i:
\* the first index of group 2, or 0
OutlineCueAt(s, i) ==
  LET afterSzkic == i + Len(OutlineCues[1])
      t == SkipWs(s, afterSzkic)
      withTail == IF MatchAtCI(s, i, OutlineCues[1]) /\ t > afterSzkic
                     /\ MatchAtCI(s, t, OutlineCueTail)
                    THEN ColonRest(s, t + Len(OutlineCueTail)) ELSE 0
      plain(k) == IF MatchAtCI(s, i, OutlineCues[k])
                    THEN ColonRest(s, i + Len(OutlineCues[k])) ELSE 0
  IN  IF withTail # 0 THEN withTail
      ELSE IF plain(1) # 0 THEN plain(1)
      ELSE IF plain(2) # 0 THEN plain(2)
      ELSE plain(3)

\* (Sanity|Weryfikacja|Sprawdzenie)\s*:\s*(.+) matched at index i
SanityCueAt(s, i) ==
  LET plain(k) == IF MatchAtCI(s, i, SanityCues[k])
                    THEN ColonRest(s, i + Len(SanityCues[k])) ELSE 0
  IN  IF plain(1) # 0 THEN plain(1)
      ELSE IF plain(2) # 0 THEN plain(2)
      ELSE plain(3)

\* \n\s*< matched at index j of chunk
NextTagLineAt(chunk, j) ==
  /\ j <= Len(chunk)
  /\ chunk[j] = "\n"
  /\ SkipWs(chunk, j + 1) <= Len(chunk)
  /\ chunk[SkipWs(chunk, j + 1)] = "<"

\* ^\s*(Sanity|Weryfikacja|Sprawdzenie)\s*: ; without re.MULTILINE the
\* anchor ^ matches at the start of chunk only
SectionHeadingAtStart(chunk) ==
  LET j == SkipWs(chunk, 1)
  IN  \E k \in 1..Len(SanityCues) :
        /\ MatchAtCI(chunk, j, SanityCues[k])
        /\ LET q == SkipWs(chunk, j + Len(SanityCues[k]))
           IN  q <= Len(chunk) /\ chunk[q] = ":"

\* re.split(pattern, chunk, maxsplit=1)[0] for the two split patterns
SplitHead(chunk, withHeading) ==
  IF withHeading /\ chunk # << >> /\ SectionHeadingAtStart(chunk) THEN << >>
  ELSE LET hits == {j \in 1..Len(chunk) : NextTagLineAt(chunk, j)}
       IN  IF hits = {} THEN chunk ELSE SubSeq(chunk, 1, Min(hits) - 1)

\* the heading heuristic of a soft-headed field, or None
HeadingExtract(text, target) ==
  LET at(i) == IF target = "solution_outline" THEN OutlineCueAt(text, i)
               ELSE SanityCueAt(text, i)
      hits == {i \in 1..Len(text) : at(i) # 0}
  IN  IF hits = {} THEN None
      ELSE LET chunk == SubSeq(text, at(Min(hits)), Len(text))
           IN  Some(Strip(SplitHead(chunk, target = "solution_outline")))

\* the first alias, from index k of the alias list on, whose pattern matches
RECURSIVE FirstAliasMatch(_, _, _)
FirstAliasMatch(text, names, k) ==
  IF k > Len(names) THEN None
  ELSE LET m == _make_tag_pattern(text, names[k])
       IN  IF m # None THEN Some(Strip(m[1]))
           ELSE FirstAliasMatch(text, names, k + 1)

_extract_by_aliases(raw_text, target) ==
  LET text == _sanitize(raw_text)
      m == FirstAliasMatch(text, AliasesOf(target), 1)
  IN  IF m # None THEN m
      ELSE IF target \in {"solution_outline", "sanity_check"}
        THEN HeadingExtract(text, target)
      ELSE None

_extract_tag(text, tag) == _extract_by_aliases(text, tag)

(***************************************************************************)
(* Field Validator (the hard gate).                                        *)
(***************************************************************************)
_SAMPLE_ECHO_PATTERNS ==
  << <<"P", "r", "z", "y", "k", "U0142", "a", "d", "o", "w", "a", " ", "t", "r", "e", "U015B", "U0107">>,
     <<"t", "y", "l", "k", "o", " ", "w", " ", "t", "y", "m", " ", "t", "a", "g", "u">>,
     <<"E", "x", "a", "m", "p", "l", "e", " ", "c", "o", "n", "t", "e", "n", "t">>,
     <<"s", "a", "m", "p", "l", "e", " ", "c", "o", "n", "t", "e", "n", "t">>,
     <<"P", "o", "p", "r", "a", "w", "i", "o", "n", "a", " ", "t", "r", "e", "U015B", "U0107">> >>

\* the further forbidden phrases of _bad_echo_or_boolean, already lower case
ForbiddenPhrases ==
  << <<"w", "a", "r", "t", "o", "U015B", "U0107", " ", "l", "o", "g", "i", "c", "z", "n", "a">>,
     <<"v", "a", "l", "u", "e", " ", "i", "s", " ", "t", "r", "u", "e">>,
     <<"v", "a", "l", "u", "e", " ", "i", "s", " ", "f", "a", "l", "s", "e">>,
     <<"p", "o", "d", "a", "n", "a", " ", "t", "r", "e", "U015B", "U0107", " ", "j", "e", "s", "t", " ", "f", "a", "U0142", "s", "z", "y", "w", "a">>,
     <<"w", "p", "i", "s", "z", " ", "p", "o", "p", "r", "a", "w", "n", "U0105", " ", "t", "r", "e", "U015B", "U0107">> >>

\* the vocabulary of _looks_mathy
MathWords ==
  << <<"u", "U0142", "a", "m">>,
     <<"l", "i", "c", "z", "b", "a">>,
     <<"s", "u", "m", "a">>,
     <<"i", "l", "o", "c", "z", "y", "n">>,
     <<"r", "U00F3", "w", "n", "a", "n", "i", "e">>,
     <<"n", "i", "e", "r", "U00F3", "w", "n", "o", "U015B", "U0107">>,
     <<"m", "i", "a", "n", "o", "w", "n", "i", "k">>,
     <<"l", "i", "c", "z", "n", "i", "k">> >>

_bad_echo_or_boolean(s) ==
  LET low == Lower(Strip(s))
  IN  \/ s = << >>
      \/ Strip(s) = << >>
      \/ low \in {<<"t", "r", "u", "e">>, <<"f", "a", "l", "s", "e">>}
      \/ Len(low) < 25
      \/ \E k \in 1..Len(_SAMPLE_ECHO_PATTERNS) :
           Contains(low, Lower(_SAMPLE_ECHO_PATTERNS[k]))
      \/ \E k \in 1..Len(ForbiddenPhrases) : Contains(low, ForbiddenPhrases[k])

_looks_mathy(s) ==
  \/ \E k \in 1..Len(s) : IsDigit(s[k]) \/ s[k] = "/"
  \/ \E k \in 1..Len(MathWords) : Contains(Lower(s), MathWords[k])

_contains_scenario(s, scenario_pl) == Contains(Lower(s), Lower(scenario_pl))

\* the validator of a problem without its threshold of length
_validate_problem_unmeasured(text, branch_en, scenario_pl) ==
  /\ ~_bad_echo_or_boolean(text)
  /\ _looks_mathy(text)
  /\ _contains_scenario(text, scenario_pl)

_validate_problem(text, branch_en, scenario_pl) ==
  /\ ~_bad_echo_or_boolean(text)
  /\ ~(Len(text) < 120)
  /\ _looks_mathy(text)
  /\ _contains_scenario(text, scenario_pl)

_validate_outline(text) ==
  /\ ~_bad_echo_or_boolean(text)
  /\ Len(text) >= 60

_validate_sanity(text) ==
  /\ ~_bad_echo_or_boolean(text)
  /\ Len(text) >= 40

(***************************************************************************)
(* Label tables of app/schemas.py and the challenge types per branch.      *)
(***************************************************************************)
BRANCH_PL ==
  ( "Numbers and operations" :> <<"A", "r", "y", "t", "m", "e", "t", "y", "k", "a">>
  @@ "Algebraic expressions" :> <<"W", "y", "r", "a", "U017C", "e", "n", "i", "a", " ", "a", "l", "g", "e", "b", "r", "a", "i", "c", "z", "n", "e">>
  @@ "Equations and inequalities" :> <<"R", "U00F3", "w", "n", "a", "n", "i", "a", " ", "i", " ", "n", "i", "e", "r", "U00F3", "w", "n", "o", "U015B", "c", "i">>
  @@ "Systems of equations" :> <<"U", "k", "U0142", "a", "d", "y", " ", "r", "U00F3", "w", "n", "a", "U0144">>
  @@ "Functions" :> <<"F", "u", "n", "k", "c", "j", "e">>
  @@ "Percentages" :> <<"P", "r", "o", "c", "e", "n", "t", "y">>
  @@ "Fractions" :> <<"U", "U0142", "a", "m", "k", "i">>
  @@ "Powers and roots" :> <<"P", "o", "t", "U0119", "g", "i", " ", "i", " ", "p", "i", "e", "r", "w", "i", "a", "s", "t", "k", "i">>
  @@ "Formulas of special products" :> <<"W", "z", "o", "r", "y", " ", "s", "k", "r", "U00F3", "c", "o", "n", "e", "g", "o", " ", "m", "n", "o", "U017C", "e", "n", "i", "a">>
  @@ "Plane geometry" :> <<"G", "e", "o", "m", "e", "t", "r", "i", "a", " ", "p", "U0142", "a", "s", "k", "a">>
  @@ "Solid geometry" :> <<"G", "e", "o", "m", "e", "t", "r", "i", "a", " ", "p", "r", "z", "e", "s", "t", "r", "z", "e", "n", "n", "a">>
  @@ "Statistics and probability" :> <<"S", "t", "a", "t", "y", "s", "t", "y", "k", "a", " ", "i", " ", "p", "r", "a", "w", "d", "o", "p", "o", "d", "o", "b", "i", "e", "U0144", "s", "t", "w", "o">>
  @@ "Combinatorics" :> <<"K", "o", "m", "b", "i", "n", "a", "t", "o", "r", "y", "k", "a">>
  @@ "Quadratic equations" :> <<"R", "U00F3", "w", "n", "a", "n", "i", "a", " ", "k", "w", "a", "d", "r", "a", "t", "o", "w", "e">>
  @@ "Sequences and series" :> <<"C", "i", "U0105", "g", "i", " ", "i", " ", "s", "z", "e", "r", "e", "g", "i">>
  @@ "Trigonometry" :> <<"T", "r", "y", "g", "o", "n", "o", "m", "e", "t", "r", "i", "a">>
  @@ "Logarithms" :> <<"L", "o", "g", "a", "r", "y", "t", "m", "y">> )

LEVEL_PL ==
  ( "lower elementary school (grades 1-5)" :> <<"S", "P", "-", "1", "-", "5">>
  @@ "higher elementary school / middle school (grades 6-8)" :> <<"S", "P", "-", "6", "-", "8">>
  @@ "high school (grades 9-12)" :> <<"L", "i", "c", "e", "u", "m", "-", "T", "e", "c", "h", "n", "i", "k", "u", "m">> )

SCENARIO_PL ==
  ( "engineering" :> <<"i", "n", "U017C", "y", "n", "i", "e", "r", "i", "a">>
  @@ "transport" :> <<"t", "r", "a", "n", "s", "p", "o", "r", "t">>
  @@ "sport" :> <<"s", "p", "o", "r", "t">>
  @@ "food and beverage" :> <<"g", "a", "s", "t", "r", "o", "n", "o", "m", "i", "a">>
  @@ "entertainment" :> <<"r", "o", "z", "r", "y", "w", "k", "a">>
  @@ "family" :> <<"r", "o", "d", "z", "i", "n", "a">>
  @@ "holidays" :> <<"w", "a", "k", "a", "c", "j", "e">> )

polish_branch_label(canonical) == BRANCH_PL[canonical]

polish_level_label(canonical) == LEVEL_PL[canonical]

polish_scenario_label(canonical) == SCENARIO_PL[canonical]

BRANCH_TO_TYPES ==
  ( "Numbers and operations" :> << <<"z", "U0142", "o", "U017C", "o", "n", "e", " ", "z", "a", "d", "a", "n", "i", "e", " ", "n", "a", " ", "N", "W", "D", "/", "N", "W", "W", " ", "w", " ", "k", "o", "n", "t", "e", "k", "U015B", "c", "i", "e", " ", "p", "r", "a", "k", "t", "y", "c", "z", "n", "y", "m">>,
          <<"n", "i", "e", "t", "r", "y", "w", "i", "a", "l", "n", "e", " ", "w", "U0142", "a", "s", "n", "o", "U015B", "c", "i", " ", "c", "y", "f", "r", " ", "i", " ", "s", "u", "m", " ", "c", "y", "f", "r">>,
          <<"r", "U00F3", "w", "n", "o", "w", "a", "U017C", "n", "o", "U015B", "U0107", " ", "a", "r", "y", "t", "m", "e", "t", "y", "c", "z", "n", "a", " ", "z", " ", "u", "k", "r", "y", "t", "y", "m", " ", "w", "z", "o", "r", "e", "m", " ", "r", "e", "k", "u", "r", "e", "n", "c", "y", "j", "n", "y", "m">>,
          <<"n", "i", "e", "t", "y", "p", "o", "w", "e", " ", "d", "z", "i", "e", "l", "e", "n", "i", "e", " ", "z", " ", "r", "e", "s", "z", "t", "U0105", " ", "w", " ", "h", "i", "s", "t", "o", "r", "i", "i", " ", "s", "U0142", "o", "w", "n", "e", "j">>,
          <<"s", "z", "a", "c", "o", "w", "a", "n", "i", "e", " ", "b", "U0142", "U0119", "d", "U00F3", "w", " ", "i", " ", "z", "a", "o", "k", "r", "U0105", "g", "l", "e", "U0144", " ", "w", " ", "c", "i", "U0105", "g", "u", " ", "o", "p", "e", "r", "a", "c", "j", "i">>,
          <<"s", "p", "r", "y", "t", "n", "e", " ", "U0142", "a", "m", "a", "n", "i", "e", " ", "n", "a", "w", "i", "a", "s", "U00F3", "w", " ", "i", " ", "p", "o", "r", "z", "U0105", "d", "e", "k", " ", "d", "z", "i", "a", "U0142", "a", "U0144">>,
          <<"b", "a", "l", "a", "n", "s", "o", "w", "a", "n", "i", "e", " ", "w", "y", "r", "a", "U017C", "e", "U0144", " ", "z", " ", "n", "i", "e", "t", "y", "p", "o", "w", "y", "m", "i", " ", "d", "z", "i", "a", "U0142", "a", "n", "i", "a", "m", "i", " ", "(", "o", "p", "e", "r", "a", "t", "o", "r", "y", " ", "z", "d", "e", "f", "i", "n", "i", "o", "w", "a", "n", "e", ")">> >>
  @@ "Algebraic expressions" :> << <<"s", "p", "r", "y", "t", "n", "e", " ", "r", "o", "z", "b", "i", "j", "a", "n", "i", "e", " ", "u", "U0142", "a", "m", "k", "U00F3", "w", " ", "a", "l", "g", "e", "b", "r", "a", "i", "c", "z", "n", "y", "c", "h">>,
          <<"i", "d", "e", "n", "t", "y", "c", "z", "n", "o", "U015B", "U0107", " ", "w", "i", "e", "l", "o", "m", "i", "a", "n", "o", "w", "a", " ", "z", " ", "p", "a", "r", "a", "m", "e", "t", "r", "e", "m">>,
          <<"z", "a", "s", "t", "U0119", "p", "s", "t", "w", "o", " ", "z", "m", "i", "e", "n", "n", "y", "c", "h", " ", "i", " ", "h", "o", "m", "o", "g", "e", "n", "i", "z", "a", "c", "j", "a">>,
          <<"m", "i", "n", "i", "m", "a", "l", "i", "z", "a", "c", "j", "a", " ", "w", "a", "r", "t", "o", "U015B", "c", "i", " ", "w", "y", "r", "a", "U017C", "e", "n", "i", "a", " ", "p", "o", "d", " ", "w", "a", "r", "u", "n", "k", "i", "e", "m">>,
          <<"n", "i", "e", "r", "U00F3", "w", "n", "o", "U015B", "c", "i", " ", "A", "M", "-", "G", "M", "/", "C", "S", " ", "w", " ", "p", "r", "z", "e", "b", "r", "a", "n", "i", "u", " ", "w", "y", "r", "a", "U017C", "e", "U0144">>,
          <<"t", "e", "l", "e", "s", "k", "o", "p", "o", "w", "a", "n", "i", "e", " ", "i", "l", "o", "c", "z", "y", "n", "U00F3", "w", "/", "s", "u", "m", " ", "p", "o", " ", "f", "a", "k", "t", "o", "r", "y", "z", "a", "c", "j", "i">> >>
  @@ "Equations and inequalities" :> << <<"n", "i", "e", "r", "U00F3", "w", "n", "o", "U015B", "U0107", " ", "z", " ", "p", "a", "r", "a", "m", "e", "t", "r", "e", "m", " ", "i", " ", "w", "a", "r", "u", "n", "k", "a", "m", "i", " ", "i", "s", "t", "n", "i", "e", "n", "i", "a">>,
          <<"r", "U00F3", "w", "n", "a", "n", "i", "e", " ", "n", "i", "e", "t", "y", "p", "o", "w", "e", " ", "z", " ", "w", "a", "r", "t", "o", "U015B", "c", "i", "U0105", " ", "b", "e", "z", "w", "z", "g", "l", "U0119", "d", "n", "U0105", " ", "i", " ", "p", "r", "z", "y", "p", "a", "d", "k", "a", "m", "i">>,
          <<"r", "U00F3", "w", "n", "a", "n", "i", "a", " ", "s", "y", "m", "e", "t", "r", "y", "c", "z", "n", "e", " ", "w", "y", "m", "a", "g", "a", "j", "U0105", "c", "e", " ", "p", "o", "d", "s", "t", "a", "w", "i", "e", "U0144">>,
          <<"z", "a", "d", "a", "n", "i", "e", " ", "o", "p", "t", "y", "m", "a", "l", "i", "z", "a", "c", "y", "j", "n", "e", " ", "z", " ", "o", "g", "r", "a", "n", "i", "c", "z", "e", "n", "i", "a", "m", "i">>,
          <<"n", "i", "e", "r", "U00F3", "w", "n", "o", "U015B", "U0107", " ", "f", "u", "n", "k", "c", "j", "o", "n", "a", "l", "n", "a", " ", "z", " ", "o", "s", "z", "a", "c", "o", "w", "a", "n", "i", "a", "m", "i">> >>
  @@ "Systems of equations" :> << <<"u", "k", "U0142", "a", "d", " ", "n", "i", "e", "l", "i", "n", "i", "o", "w", "y", " ", "z", " ", "s", "y", "m", "e", "t", "r", "i", "U0105">>,
          <<"u", "k", "U0142", "a", "d", " ", "e", "k", "s", "p", "o", "n", "e", "n", "c", "j", "a", "l", "n", "o", "-", "l", "o", "g", "a", "r", "y", "t", "m", "i", "c", "z", "n", "y">>,
          <<"u", "k", "U0142", "a", "d", " ", "z", " ", "p", "a", "r", "a", "m", "e", "t", "r", "e", "m", " ", "i", " ", "a", "n", "a", "l", "i", "z", "a", " ", "r", "o", "z", "w", "i", "U0105", "z", "a", "U0144">>,
          <<"u", "k", "U0142", "a", "d", " ", "z", " ", "w", "a", "r", "u", "n", "k", "a", "m", "i", " ", "c", "a", "U0142", "k", "o", "w", "i", "t", "o", "U015B", "c", "i">> >>
  @@ "Functions" :> << <<"f", "u", "n", "k", "c", "j", "a", " ", "o", " ", "n", "i", "e", "t", "y", "p", "o", "w", "e", "j", " ", "d", "e", "f", "i", "n", "i", "c", "j", "i", " ", "k", "a", "w", "a", "U0142", "k", "a", "m", "i">>,
          <<"r", "U00F3", "w", "n", "a", "n", "i", "e", " ", "f", "u", "n", "k", "c", "y", "j", "n", "e", " ", "n", "a", " ", "R", "/", "Z">>,
          <<"m", "o", "n", "o", "t", "o", "n", "i", "c", "z", "n", "o", "U015B", "U0107", " ", "i", " ", "o", "d", "w", "r", "a", "c", "a", "l", "n", "o", "U015B", "U0107", " ", "f", "u", "n", "k", "c", "j", "i", " ", "z", " ", "p", "a", "r", "a", "m", "e", "t", "r", "e", "m">>,
          <<"m", "a", "k", "s", "i", "m", "u", "m", "/", "m", "i", "n", "i", "m", "u", "m", " ", "f", "u", "n", "k", "c", "j", "i", " ", "z", " ", "o", "g", "r", "a", "n", "i", "c", "z", "e", "n", "i", "a", "m", "i">> >>
  @@ "Percentages" :> << <<"s", "e", "k", "w", "e", "n", "c", "y", "j", "n", "e", " ", "r", "a", "b", "a", "t", "y", " ", "i", " ", "p", "o", "d", "w", "y", "U017C", "k", "i", " ", "w", " ", "c", "y", "k", "l", "u">>,
          <<"m", "i", "e", "s", "z", "a", "n", "i", "e", " ", "d", "w", "U00F3", "c", "h", " ", "p", "o", "l", "i", "t", "y", "k", " ", "p", "r", "o", "c", "e", "n", "t", "o", "w", "y", "c", "h">>,
          <<"z", "y", "s", "k", "/", "s", "t", "r", "a", "t", "a", " ", "z", " ", "p", "o", "d", "a", "t", "k", "a", "m", "i", " ", "i", " ", "n", "a", "p", "i", "U0119", "t", "y", "m", "i", " ", "o", "g", "r", "a", "n", "i", "c", "z", "e", "n", "i", "a", "m", "i">>,
          <<"o", "d", "w", "r", "a", "c", "a", "n", "i", "e", " ", "o", "p", "e", "r", "a", "c", "j", "i", " ", "p", "r", "o", "c", "e", "n", "t", "o", "w", "y", "c", "h", " ", "(", "c", "o", "f", "a", "n", "i", "e", " ", "r", "a", "b", "a", "t", "U00F3", "w", ")">> >>
  @@ "Fractions" :> << <<"U0142", "a", "U0144", "c", "u", "c", "h", "y", " ", "u", "U0142", "a", "m", "k", "U00F3", "w", " ", "i", " ", "u", "U0142", "a", "m", "k", "i", " ", "U0142", "a", "U0144", "c", "u", "c", "h", "o", "w", "e", " ", "(", "i", "n", "t", "u", "i", "c", "y", "j", "n", "i", "e", ")">>,
          <<"p", "o", "r", "U00F3", "w", "n", "y", "w", "a", "n", "i", "e", " ", "u", "U0142", "a", "m", "k", "U00F3", "w", " ", "p", "r", "z", "e", "z", " ", "k", "r", "z", "y", "U017C", "o", "w", "a", "n", "i", "e", "/", "e", "s", "t", "y", "m", "a", "t", "y">>,
          <<"z", "U0142", "o", "U017C", "o", "n", "e", " ", "s", "k", "r", "a", "c", "a", "n", "i", "e", " ", "z", " ", "w", "a", "r", "u", "n", "k", "a", "m", "i", " ", "c", "a", "U0142", "k", "o", "w", "i", "t", "o", "U015B", "c", "i">>,
          <<"u", "U0142", "a", "m", "k", "i", " ", "e", "g", "i", "p", "s", "k", "i", "e", " ", "z", " ", "o", "g", "r", "a", "n", "i", "c", "z", "e", "n", "i", "a", "m", "i">> >>
  @@ "Powers and roots" :> << <<"u", "k", "r", "y", "t", "a", " ", "p", "o", "t", "U0119", "g", "a", " ", "w", " ", "r", "U00F3", "w", "n", "a", "n", "i", "u", " ", "d", "i", "o", "f", "a", "n", "t", "y", "c", "z", "n", "y", "m">>,
          <<"n", "i", "e", "r", "U00F3", "w", "n", "o", "U015B", "U0107", " ", "p", "o", "t", "U0119", "g", "o", "w", "a", " ", "z", " ", "n", "o", "r", "m", "a", "l", "i", "z", "a", "c", "j", "U0105">>,
          <<"p", "i", "e", "r", "w", "i", "a", "s", "t", "k", "i", " ", "i", " ", "r", "a", "c", "j", "o", "n", "a", "l", "i", "z", "a", "c", "j", "a", " ", "z", " ", "p", "a", "r", "a", "m", "e", "t", "r", "e", "m">>,
          <<"g", "r", "a", "n", "i", "c", "e", " ", "i", " ", "m", "o", "n", "o", "t", "o", "n", "i", "c", "z", "n", "o", "U015B", "U0107", " ", "c", "i", "U0105", "g", "U00F3", "w", " ", "p", "o", "t", "U0119", "g", "o", "w", "y", "c", "h", " ", "(", "i", "n", "t", "u", "i", "c", "y", "j", "n", "i", "e", ")">> >>
  @@ "Formulas of special products" :> << <<"k", "r", "e", "a", "t", "y", "w", "n", "e", " ", "u", "U017C", "y", "c", "i", "e", " ", "(", "a", "U00B1", "b", ")", "^", "n", " ", "i", " ", "d", "w", "u", "m", "i", "a", "n", "u", " ", "N", "e", "w", "t", "o", "n", "a">>,
          <<"r", "U00F3", "U017C", "n", "i", "c", "a", " ", "k", "w", "a", "d", "r", "a", "t", "U00F3", "w", " ", "z", " ", "m", "a", "s", "k", "u", "j", "U0105", "c", "U0105", " ", "h", "i", "s", "t", "o", "r", "y", "j", "k", "U0105">>,
          <<"i", "l", "o", "c", "z", "y", "n", "y", " ", "s", "k", "r", "U00F3", "c", "o", "n", "e", " ", "i", " ", "t", "e", "l", "e", "s", "k", "o", "p", "o", "w", "a", "n", "i", "e">>,
          <<"f", "a", "k", "t", "o", "r", "y", "z", "a", "c", "j", "a", " ", "p", "r", "z", "e", "z", " ", "d", "o", "d", "a", "n", "i", "e", "/", "o", "d", "j", "U0119", "c", "i", "e", " ", "t", "e", "g", "o", " ", "s", "a", "m", "e", "g", "o">> >>
  @@ "Plane geometry" :> << <<"g", "e", "o", "m", "e", "t", "r", "i", "a", " ", "e", "u", "k", "l", "i", "d", "e", "s", "o", "w", "a", " ", "z", " ", "n", "i", "e", "o", "c", "z", "y", "w", "i", "s", "t", "U0105", " ", "k", "o", "n", "s", "t", "r", "u", "k", "c", "j", "U0105", " ", "p", "o", "m", "o", "c", "n", "i", "c", "z", "U0105">>,
          <<"t", "w", "i", "e", "r", "d", "z", "e", "n", "i", "e", " ", "o", " ", "c", "i", "U0119", "c", "i", "w", "a", "c", "h", "/", "s", "e", "k", "a", "n", "t", "a", "c", "h", " ", "i", " ", "p", "o", "t", "U0119", "d", "z", "e", " ", "p", "u", "n", "k", "t", "u">>,
          <<"g", "e", "o", "m", "e", "t", "r", "i", "a", " ", "n", "a", " ", "s", "i", "a", "t", "c", "e", ",", " ", "p", "a", "r", "z", "y", "s", "t", "o", "U015B", "U0107", " ", "i", " ", "w", "e", "k", "t", "o", "r", "y">>,
          <<"m", "a", "k", "s", "y", "m", "a", "l", "n", "y", "/", "m", "i", "n", "i", "m", "a", "l", "n", "y", " ", "o", "b", "w", "U00F3", "d", "/", "p", "o", "l", "e", " ", "p", "r", "z", "y", " ", "o", "g", "r", "a", "n", "i", "c", "z", "e", "n", "i", "a", "c", "h">>,
          <<"k", "U0105", "t", "y", " ", "w", "p", "i", "s", "a", "n", "e", " ", "i", " ", "s", "t", "y", "c", "z", "n", "e", " ", "z", " ", "i", "n", "w", "e", "n", "c", "j", "U0105">> >>
  @@ "Solid geometry" :> << <<"p", "r", "z", "e", "k", "r", "o", "j", "e", " ", "b", "r", "y", "U0142", " ", "i", " ", "p", "o", "l", "e", " ", "p", "o", "w", "i", "e", "r", "z", "c", "h", "n", "i", "/", "o", "b", "j", "U0119", "t", "o", "U015B", "U0107">>,
          <<"o", "p", "t", "y", "m", "a", "l", "i", "z", "a", "c", "j", "a", " ", "w", "y", "m", "i", "a", "r", "U00F3", "w", " ", "p", "r", "z", "y", " ", "s", "t", "a", "U0142", "e", "j", " ", "o", "b", "j", "U0119", "t", "o", "U015B", "c", "i">>,
          <<"g", "e", "o", "m", "e", "t", "r", "i", "a", " ", "p", "r", "z", "e", "s", "t", "r", "z", "e", "n", "n", "a", " ", "z", " ", "s", "i", "a", "t", "k", "U0105", " ", "b", "r", "y", "U0142", "y">>,
          <<"z", "a", "s", "t", "o", "s", "o", "w", "a", "n", "i", "e", " ", "r", "z", "u", "t", "U00F3", "w", " ", "i", " ", "t", "w", ".", " ", "P", "i", "t", "a", "g", "o", "r", "a", "s", "a", " ", "w", " ", "3", "D">> >>
  @@ "Statistics and probability" :> << <<"k", "o", "m", "b", "i", "n", "a", "t", "o", "r", "y", "c", "z", "n", "e", " ", "p", "r", "a", "w", "d", "o", "p", "o", "d", "o", "b", "i", "e", "U0144", "s", "t", "w", "o", " ", "z", " ", "w", "a", "r", "u", "n", "k", "o", "w", "a", "n", "i", "e", "m">>,
          <<"w", "a", "r", "t", "o", "U015B", "U0107", " ", "o", "c", "z", "e", "k", "i", "w", "a", "n", "a", " ", "z", " ", "n", "i", "e", "s", "t", "a", "n", "d", "a", "r", "d", "o", "w", "U0105", " ", "z", "m", "i", "e", "n", "n", "U0105">>,
          <<"p", "a", "r", "a", "d", "o", "k", "s", "y", " ", "i", " ", "p", "u", "U0142", "a", "p", "k", "i", " ", "k", "l", "a", "s", "y", "f", "i", "k", "a", "c", "y", "j", "n", "e">>,
          <<"s", "y", "m", "u", "l", "a", "c", "j", "a", " ", "m", "e", "n", "t", "a", "l", "n", "a", " ", "i", " ", "n", "i", "e", "z", "m", "i", "e", "n", "n", "i", "k", "i", " ", "l", "o", "s", "o", "w", "a", "U0144">> >>
  @@ "Combinatorics" :> << <<"z", "a", "s", "a", "d", "a", " ", "s", "z", "u", "f", "l", "a", "d", "k", "o", "w", "a", " ", "z", " ", "t", "w", "i", "s", "t", "e", "m">>,
          <<"i", "n", "w", "a", "r", "i", "a", "n", "t", "/", "m", "o", "n", "o", "w", "a", "r", "i", "a", "n", "t", " ", "w", " ", "p", "r", "o", "c", "e", "s", "i", "e">>,
          <<"l", "i", "c", "z", "e", "n", "i", "e", " ", "k", "o", "n", "s", "t", "r", "u", "k", "t", "y", "w", "n", "e", " ", "i", " ", "b", "i", "j", "e", "k", "c", "j", "e">>,
          <<"e", "k", "s", "t", "r", "e", "m", "a", "l", "n", "e", " ", "a", "r", "g", "u", "m", "e", "n", "t", "y", " ", "i", " ", "m", "e", "t", "o", "d", "a", " ", "p", "r", "z", "e", "c", "i", "U0119", "c", "i", "a">>,
          <<"d", "w", "u", "k", "r", "o", "t", "n", "e", " ", "l", "i", "c", "z", "e", "n", "i", "e", " ", "t", "e", "j", " ", "s", "a", "m", "e", "j", " ", "w", "i", "e", "l", "k", "o", "U015B", "c", "i">>,
          <<"k", "o", "l", "o", "r", "o", "w", "a", "n", "i", "e", "/", "n", "i", "e", "z", "m", "i", "e", "n", "n", "i", "k", "i", " ", "p", "a", "r", "z", "y", "s", "t", "o", "U015B", "c", "i">> >>
  @@ "Quadratic equations" :> << <<"V", "i", "e", "t", "a", " ", "i", " ", "w", "a", "r", "u", "n", "k", "i", " ", "n", "a", " ", "p", "i", "e", "r", "w", "i", "a", "s", "t", "k", "i">>,
          <<"r", "U00F3", "w", "n", "a", "n", "i", "e", " ", "k", "w", "a", "d", "r", "a", "t", "o", "w", "e", " ", "z", " ", "p", "a", "r", "a", "m", "e", "t", "r", "e", "m", " ", "i", " ", "w", "a", "r", "t", "o", "U015B", "c", "i", "U0105", " ", "b", "e", "z", "w", "z", "g", "l", "U0119", "d", "n", "U0105">>,
          <<"s", "k", "o", "k", "i", " ", "V", "i", "e", "e", "t", "y", " ", "(", "V", "i", "e", "t", "a", " ", "j", "u", "m", "p", "i", "n", "g", ")", " ", "w", " ", "t", "l", "e", " ", "d", "i", "o", "f", "a", "n", "t", "y", "c", "z", "n", "y", "m">>,
          <<"k", "w", "a", "d", "r", "a", "t", "o", "w", "a", " ", "o", "p", "t", "y", "m", "a", "l", "i", "z", "a", "c", "j", "a", " ", "z", " ", "o", "g", "r", "a", "n", "i", "c", "z", "e", "n", "i", "a", "m", "i">> >>
  @@ "Sequences and series" :> << <<"r", "e", "k", "u", "r", "e", "n", "c", "j", "e", " ", "n", "i", "e", "l", "i", "n", "i", "o", "w", "e", " ", "z", " ", "i", "n", "w", "a", "r", "i", "a", "n", "t", "e", "m">>,
          <<"g", "r", "a", "n", "i", "c", "e", " ", "c", "i", "U0105", "g", "U00F3", "w">>,
          <<"s", "z", "e", "r", "e", "g", "i", " ", "g", "e", "o", "m", "e", "t", "r", "y", "c", "z", "n", "e", " ", "i", " ", "a", "r", "y", "t", "m", "e", "t", "y", "c", "z", "n", "e", ":", " ", "z", "b", "i", "e", "U017C", "n", "o", "U015B", "U0107", " ", "i", " ", "s", "u", "m", "a">>,
          <<"c", "i", "U0105", "g", "i", " ", "d", "e", "f", "i", "n", "i", "o", "w", "a", "n", "e", " ", "p", "r", "z", "e", "z", " ", "w", "a", "r", "u", "n", "e", "k", " ", "c", "y", "f", "r">>,
          <<"m", "o", "n", "o", "t", "o", "n", "i", "c", "z", "n", "o", "U015B", "U0107", " ", "i", " ", "o", "g", "r", "a", "n", "i", "c", "z", "o", "n", "o", "U015B", "U0107", " ", "z", " ", "d", "o", "w", "o", "d", "e", "m">> >>
  @@ "Trigonometry" :> << <<"t", "o", "U017C", "s", "a", "m", "o", "U015B", "c", "i", " ", "i", " ", "p", "r", "z", "e", "k", "s", "z", "t", "a", "U0142", "c", "e", "n", "i", "a", " ", "k", "U0105", "t", "U00F3", "w", " ", "n", "i", "e", "t", "y", "p", "o", "w", "y", "c", "h">>,
          <<"n", "i", "e", "r", "U00F3", "w", "n", "o", "U015B", "c", "i", " ", "t", "r", "y", "g", "o", "n", "o", "m", "e", "t", "r", "y", "c", "z", "n", "e">>,
          <<"r", "U00F3", "w", "n", "a", "n", "i", "a", " ", "t", "r", "y", "g", "o", "n", "o", "m", "e", "t", "r", "y", "c", "z", "n", "e", " ", "z", " ", "p", "a", "r", "a", "m", "e", "t", "r", "e", "m">>,
          <<"g", "e", "o", "m", "e", "t", "r", "i", "a", " ", "+", " ", "t", "r", "y", "g", "o", "n", "o", "m", "e", "t", "r", "i", "a", " ", "(", "m", "i", "e", "s", "z", "a", "n", "e", ")">> >>
  @@ "Logarithms" :> << <<"r", "U00F3", "w", "n", "a", "n", "i", "a", " ", "l", "o", "g", "a", "r", "y", "t", "m", "i", "c", "z", "n", "e", " ", "z", " ", "w", "a", "r", "u", "n", "k", "a", "m", "i", " ", "d", "z", "i", "e", "d", "z", "i", "n", "y">>,
          <<"n", "i", "e", "r", "U00F3", "w", "n", "o", "U015B", "c", "i", " ", "l", "o", "g", "a", "r", "y", "t", "m", "i", "c", "z", "n", "e", " ", "z", " ", "p", "a", "r", "a", "m", "e", "t", "r", "e", "m">>,
          <<"l", "o", "g", "a", "r", "y", "t", "m", "y", " ", "w", " ", "m", "o", "d", "e", "l", "u", " ", "w", "z", "r", "o", "s", "t", "u", "/", "z", "a", "n", "i", "k", "u">>,
          <<"p", "r", "z", "e", "k", "s", "z", "t", "a", "U0142", "c", "e", "n", "i", "a", " ", "p", "o", "d", "s", "t", "a", "w", " ", "i", " ", "z", "m", "i", "e", "n", "n", "e">> >> )

(***************************************************************************)
(* random.Random.  The generator of the standard library is modelled as a  *)
(* deterministic stream: a linear congruential state of 16 bits, of which  *)
(* the high bits give each draw.  The state after seeding is a function of *)
(* the seed; an unseeded generator starts in any state.                    *)
(***************************************************************************)
RngStep(r) == (r * 25173 + 13849) % 65536

\* random.Random(seed)
RngSeed(seed) == (seed * 40503 + 1) % 65536

\* _randbelow(k): the draw made from state r (the state becomes RngStep(r))
RandBelow(r, k) == (RngStep(r) \div 16) % k

\* rng.randint(lo, hi) from state r
RandInt(r, lo, hi) == lo + RandBelow(r, hi - lo + 1)

\* rng.choice(seq) from state r
RandChoice(r, seq) == seq[RandBelow(r, Len(seq)) + 1]

Swap(seq, a, b) == [seq EXCEPT ![a] = seq[b], ![b] = seq[a]]

\* rng.shuffle(x): for i in reversed(range(1, len(x))): j = randbelow(i + 1);
\* x[i], x[j] = x[j], x[i].  ShuffleFrom handles the 1-based index i down to 2.
RECURSIVE ShuffleFrom(_, _, _)
ShuffleFrom(seq, r, i) ==
  IF i < 2 THEN [list |-> seq, rng |-> r]
  ELSE ShuffleFrom(Swap(seq, i, RandBelow(r, i) + 1), RngStep(r), i - 1)

RngShuffle(seq, r) == ShuffleFrom(seq, r, Len(seq))

\* list.sort(key=...): a stable sort; Before(a, b) says a's key orders
\* strictly before b's.  An element's place is the number of elements that
\* sort before it: those with a smaller key and those with an equal key
\* that stand earlier in the list.
StableSort(seq, Before(_, _)) ==
  LET place(i) ==
        Cardinality({j \in 1..Len(seq) :
                       \/ Before(seq[j], seq[i])
                       \/ (~Before(seq[i], seq[j]) /\ j < i)}) + 1
  IN  [q \in 1..Len(seq) |-> seq[CHOOSE i \in 1..Len(seq) : place(i) = q]]

(***************************************************************************)
(* Deterministic Fallback Generator.                                       *)
(***************************************************************************)
FbP1 ==
  << "W", " ", "p", "r", "a", "c", "o", "w", "n", "i", " ", "(" >>

FbP2 ==
  << ")", " ", "p", "r", "z", "y", "g", "o", "t", "o", "w", "u", "j", "e",
     " ", "s", "i", "U0119", " " >>

FbP3 ==
  << " ", "j", "e", "d", "n", "a", "k", "o", "w", "y", "c", "h", " ", "b",
     "e", "l", "e", "k", " ", "d", "o", " ", "m", "a", "U0142", "e", "g",
     "o", " ", "m", "o", "s", "t", "k", "u", ".", " ", "Z", "e", "s", "p",
     "U00F3", "U0142", " ", "A", "n", "n", "y", " ", "z", "u", "U017C",
     "y", "U0142", " " >>

FbP4 ==
  << " ", "w", "s", "z", "y", "s", "t", "k", "i", "c", "h", " ", "b", "e",
     "l", "e", "k", ",", " ", "a", " ", "z", "e", "s", "p", "U00F3",
     "U0142", " ", "B", "a", "r", "t", "k", "a", " ", "z", "u", "U017C",
     "y", "U0142", " " >>

FbP5 ==
  << " ", "w", "s", "z", "y", "s", "t", "k", "i", "c", "h", " ", "b", "e",
     "l", "e", "k", ".", " ", "a", ")", " ", "K", "t", "U00F3", "r", "y",
     " ", "z", "e", "s", "p", "U00F3", "U0142", " ", "z", "u", "U017C",
     "y", "U0142", " ", "w", "i", "U0119", "c", "e", "j", " ", "b", "e",
     "l", "e", "k", " ", "i", " ", "o", " ", "j", "a", "k", "U0105", " ",
     "c", "z", "U0119", "U015B", "U0107", " ", "c", "a", "U0142", "e", "j",
     " ", "p", "u", "l", "i", " ", "w", "i", "U0119", "c", "e", "j", "?",
     "\n", "b", ")", " ", "C", "z", "y", " ", "s", "u", "m", "a", " ", "i",
     "c", "h", " ", "z", "u", "U017C", "y", "c", "i", "a", " ", "p", "r",
     "z", "e", "k", "r", "a", "c", "z", "a", " ", "p", "o", "U0142", "o",
     "w", "U0119", " ", "p", "u", "l", "i", "?", " ", "U", "z", "a", "s",
     "a", "d", "n", "i", "j", " ", "p", "o", "r", "U00F3", "w", "n", "a",
     "n", "i", "e", "m", " ", "u", "U0142", "a", "m", "k", "U00F3", "w",
     ".", "\n", "c", ")", " ", "D", "l", "a", " ", "p", "o", "r", "U00F3",
     "w", "n", "a", "n", "i", "a", ",", " ", "w", " ", "i", "n", "n", "y",
     "m", " ", "p", "r", "o", "j", "e", "k", "c", "i", "e", " ", "u",
     "U017C", "y", "t", "o", " " >>

FbP6 ==
  << " ", "c", "a", "U0142", "e", "j", " ", "p", "u", "l", "i", " ", "e",
     "l", "e", "m", "e", "n", "t", "U00F3", "w", ".", " ", "U", "p", "o",
     "r", "z", "U0105", "d", "k", "u", "j", " ", "r", "o", "s", "n",
     "U0105", "c", "o", " ", "u", "U0142", "a", "m", "k", "i", ":", " " >>

FbO1 ==
  << "a", ")", " ", "P", "o", "r", "U00F3", "w", "n", "u", "j", "e", "m",
     "y", " ", "u", "U0142", "a", "m", "k", "i", " ", "o", " ", "t", "y",
     "m", " ", "s", "a", "m", "y", "m", " ", "m", "i", "a", "n", "o", "w",
     "n", "i", "k", "u", ":", " ", "w", "i", "U0119", "k", "s", "z", "y",
     " ", "l", "i", "c", "z", "n", "i", "k", " ", "o", "z", "n", "a", "c",
     "z", "a", " ", "w", "i", "U0119", "k", "s", "z", "y", " ", "u",
     "U0142", "a", "m", "e", "k", ",", " ", "w", "i", "U0119", "c", " ",
     "w", "i", "U0119", "c", "e", "j", " ", "z", "u", "U017C", "y",
     "U0142", " ", "z", "e", "s", "p", "U00F3", "U0142", " " >>

FbO2 ==
  << ".", " ", "R", "U00F3", "U017C", "n", "i", "c", "a", " ", "t", "o",
     " " >>

FbO3 ==
  << ".", "\n", "b", ")", " ", "S", "u", "m", "a", " ", "u", "U0142", "a",
     "m", "k", "U00F3", "w", " ", "m", "a", " ", "w", "s", "p", "U00F3",
     "l", "n", "y", " ", "m", "i", "a", "n", "o", "w", "n", "i", "k", ",",
     " ", "w", "i", "U0119", "c", " ", "s", "p", "r", "a", "w", "d", "z",
     "a", "m", "y", " ", "c", "z", "y", " ", "\\", "(", "\\", "f", "r",
     "a", "c", "{" >>

FbO4 ==
  << "}", " ", ">", " ", "\\", "f", "r", "a", "c", "{", "1", "}", "{", "2",
     "}", "\\", ")", ".", " ", "T", "o", " ", "r", "U00F3", "w", "n", "o",
     "w", "a", "U017C", "n", "e", " ", "s", "p", "r", "a", "w", "d", "z",
     "e", "n", "i", "u", ",", " ", "c", "z", "y", " " >>

FbO5 ==
  << "U00B7", "2", " ", ">", " " >>

FbO6 ==
  << ",", " ", "z", " ", "o", "d", "p", "o", "w", "i", "e", "d", "z", "i",
     "U0105", ":", " " >>

FbO7 ==
  << ".", "\n", "c", ")", " ", "D", "l", "a", " ", "p", "o", "r", "z",
     "U0105", "d", "k", "u", " ", "m", "o", "U017C", "e", "m", "y", " ",
     "p", "o", "r", "U00F3", "w", "n", "a", "U0107", " ", "p", "r", "z",
     "y", " ", "w", "s", "p", "U00F3", "l", "n", "y", "c", "h", " ", "m",
     "i", "a", "n", "o", "w", "n", "i", "k", "a", "c", "h", " ", "l", "u",
     "b", " ", "p", "r", "z", "e", "z", " ", "p", "r", "z", "y", "b", "l",
     "i", "U017C", "e", "n", "i", "a", " ", "d", "z", "i", "e", "s", "i",
     "U0119", "t", "n", "e", ";", " ", "u", "p", "o", "r", "z", "U0105",
     "d", "k", "o", "w", "a", "n", "i", "e", " ", "r", "o", "s", "n",
     "U0105", "c", "o", ":", " " >>

FbSanity ==
  << "W", "s", "z", "y", "s", "t", "k", "i", "e", " ", "u", "U0142", "a",
     "m", "k", "i", " ", "m", "a", "j", "U0105", " ", "s", "e", "n", "s",
     " ", "(", "m", "i", "a", "n", "o", "w", "n", "i", "k", "i", " ", "d",
     "o", "d", "a", "t", "n", "i", "e", ",", " ", "u", "U0142", "a", "m",
     "k", "i", " ", "w", "U0142", "a", "U015B", "c", "i", "w", "e", ")",
     ".", " ", "P", "o", "r", "U00F3", "w", "n", "a", "n", "i", "a", " ",
     "w", " ", "a", ")", " ", "i", " ", "b", ")", " ", "s", "U0105", " ",
     "p", "o", "p", "r", "a", "w", "n", "e", ",", " ", "b", "o", " ", "s",
     "p", "r", "o", "w", "a", "d", "z", "a", "m", "y", " ", "d", "o", " ",
     "w", "s", "p", "U00F3", "l", "n", "e", "g", "o", " ", "m", "i", "a",
     "n", "o", "w", "n", "i", "k", "a", " ", "l", "u", "b", " ", "u",
     "U017C", "y", "w", "a", "m", "y", " ", "r", "U00F3", "w", "n", "o",
     "w", "a", "U017C", "n", "y", "c", "h", " ", "n", "i", "e", "r",
     "U00F3", "w", "n", "o", "U015B", "c", "i", ".", " ", "W", " ", "c",
     ")", " ", "k", "o", "l", "e", "j", "n", "o", "U015B", "U0107", " ",
     "w", "y", "n", "i", "k", "a", " ", "z", " ", "w", "a", "r", "t", "o",
     "U015B", "c", "i", " ", "u", "U0142", "a", "m", "k", "U00F3", "w",
     ";", " ", "U017C", "a", "d", "n", "a", " ", "z", " ", "w", "a", "r",
     "t", "o", "U015B", "c", "i", " ", "n", "i", "e", " ", "p", "r", "z",
     "e", "k", "r", "a", "c", "z", "a", " ", "1", "." >>

FbAnna ==
  << "A", "n", "n", "a" >>

FbBartek ==
  << "B", "a", "r", "t", "e", "k" >>

FbTak ==
  << "t", "a", "k" >>

FbNie ==
  << "n", "i", "e", " ", "(", "n", "i", "e", " ", "p", "r", "z", "e", "k",
     "r", "a", "c", "z", "a", " ", "p", "o", "U0142", "o", "w", "y", ")" >>

\* \frac{num}{den}
BareFrac(num, den) ==
  <<"\\", "f", "r", "a", "c", "{">> \o num \o <<"}", "{">> \o den \o <<"}">>

\* \(\frac{num}{den}\)
Frac(num, den) == <<"\\", "(">> \o BareFrac(num, den) \o <<"\\", ")">>

\* the draw of (A, B, total) without the while loop
FallbackDrawOnce(r) ==
  [ A |-> RandInt(r, 2, 5),
    B |-> RandInt(RngStep(r), 3, 7),
    total |-> RandInt(RngStep(RngStep(r)), 8, 14),
    rng |-> RngStep(RngStep(RngStep(r))) ]

\* the rejection-resample loop of the fallback: the first draw of
\* (A, B, total) from state r on that passes the loop condition, and the
\* state after it
RECURSIVE FallbackDraw(_)
FallbackDraw(r) ==
  LET A == RandInt(r, 2, 5)
      B == RandInt(RngStep(r), 3, 7)
      total == RandInt(RngStep(RngStep(r)), 8, 14)
      r3 == RngStep(RngStep(RngStep(r)))
  IN  IF A = B \/ A >= total \/ B >= total THEN FallbackDraw(r3)
      ELSE [A |-> A, B |-> B, total |-> total, rng |-> r3]

\* the texts of the fallback without triples.sort: the fractions of c) in
\* the order A, B, C
FallbackTextsUnsorted(scenario_pl, A, B, total, C_num, C_den) ==
  LET fa == Frac(IntToText(A), IntToText(total))
      fb == Frac(IntToText(B), IntToText(total))
      fc == Frac(IntToText(C_num), IntToText(C_den))
      more == IF A > B THEN FbAnna ELSE FbBartek
      diff_frac == Frac(IntToText(IF A > B THEN A - B ELSE B - A),
                        IntToText(total))
      half_cmp == IF (A + B) * 2 > total THEN FbTak ELSE FbNie
      triples == << [num |-> A, den |-> total, txt |-> fa],
                    [num |-> B, den |-> total, txt |-> fb],
                    [num |-> C_num, den |-> C_den, txt |-> fc] >>
      sorted == triples
      order == sorted[1].txt \o <<",", " ">> \o sorted[2].txt
                 \o <<",", " ">> \o sorted[3].txt
  IN  [ problem |->
          FbP1 \o scenario_pl \o FbP2 \o IntToText(total) \o FbP3 \o fa
            \o FbP4 \o fb \o FbP5 \o fc \o FbP6
            \o <<"\\", "(">> \o BareFrac(IntToText(A), IntToText(total))
            \o <<",", "\\", " ">> \o BareFrac(IntToText(B), IntToText(total))
            \o <<",", "\\", " ">>
            \o BareFrac(IntToText(C_num), IntToText(C_den))
            \o <<"\\", ")", ".">>,
        solution_outline |->
          FbO1 \o more \o FbO2 \o diff_frac \o FbO3
            \o IntToText(A) \o <<"+">> \o IntToText(B) \o <<"}", "{">>
            \o IntToText(total) \o FbO4 \o IntToText(A + B) \o FbO5
            \o IntToText(total) \o FbO6 \o half_cmp \o FbO7 \o order
            \o <<".">>,
        sanity_check |-> FbSanity ]

\* the texts of the fallback for drawn parameters
FallbackTexts(scenario_pl, A, B, total, C_num, C_den) ==
  LET fa == Frac(IntToText(A), IntToText(total))
      fb == Frac(IntToText(B), IntToText(total))
      fc == Frac(IntToText(C_num), IntToText(C_den))
      more == IF A > B THEN FbAnna ELSE FbBartek
      diff_frac == Frac(IntToText(IF A > B THEN A - B ELSE B - A),
                        IntToText(total))
      half_cmp == IF (A + B) * 2 > total THEN FbTak ELSE FbNie
      triples == << [num |-> A, den |-> total, txt |-> fa],
                    [num |-> B, den |-> total, txt |-> fb],
                    [num |-> C_num, den |-> C_den, txt |-> fc] >>
      Smaller(u, v) == u.num * v.den < v.num * u.den
      sorted == StableSort(triples, Smaller)
      order == sorted[1].txt \o <<",", " ">> \o sorted[2].txt
                 \o <<",", " ">> \o sorted[3].txt
  IN  [ problem |->
          FbP1 \o scenario_pl \o FbP2 \o IntToText(total) \o FbP3 \o fa
            \o FbP4 \o fb \o FbP5 \o fc \o FbP6
            \o <<"\\", "(">> \o BareFrac(IntToText(A), IntToText(total))
            \o <<",", "\\", " ">> \o BareFrac(IntToText(B), IntToText(total))
            \o <<",", "\\", " ">>
            \o BareFrac(IntToText(C_num), IntToText(C_den))
            \o <<"\\", ")", ".">>,
        solution_outline |->
          FbO1 \o more \o FbO2 \o diff_frac \o FbO3
            \o IntToText(A) \o <<"+">> \o IntToText(B) \o <<"}", "{">>
            \o IntToText(total) \o FbO4 \o IntToText(A + B) \o FbO5
            \o IntToText(total) \o FbO6 \o half_cmp \o FbO7 \o order
            \o <<".">>,
        sanity_check |-> FbSanity ]

\* The state holds a text of the fallback by the parameters it was built
\* from; FieldText renders it with FallbackTexts.
FallbackField(field, scenario_pl, A, B, total, C_num, C_den) ==
  [ kind |-> "fallback", field |-> field, scenario_pl |-> scenario_pl,
    A |-> A, B |-> B, total |-> total, C_num |-> C_num, C_den |-> C_den ]

\* _fallback_fractions_sp_1_5(scenario_pl, rng) from state r: the bundle
\* and the state of the generator after the draws
_fallback_fractions_sp_1_5(scenario_pl, r) ==
  LET d == FallbackDraw(r)
      C_num == RandInt(d.rng, 2, 5)
      C_den == RandChoice(RngStep(d.rng), <<6, 8, 10, 12>>)
  IN  [ bundle |->
          [ f \in {"problem", "solution_outline", "sanity_check"} |->
              FallbackField(f, scenario_pl, d.A, d.B, d.total, C_num, C_den) ],
        rng |-> RngStep(RngStep(d.rng)) ]

\* _deterministic_fallback: None (here << >>) for a pair without a fallback
_deterministic_fallback(branch_en, level_en, scenario_pl, r) ==
  IF branch_en = "Fractions"
     /\ level_en = "lower elementary school (grades 1-5)"
    THEN Some(_fallback_fractions_sp_1_5(scenario_pl, r))
    ELSE None

(***************************************************************************)
(* The collaborator's replies.  The language model is an input of the      *)
(* program: its replies are drawn from the vocabulary Replies, which holds *)
(* a reply of every shape the parsing and validating code tells apart.     *)
(* Field texts are held in the state by name (a key of TextPool).          *)
(***************************************************************************)
P_ok ==
  << "W", " ", "h", "a", "l", "i", ",", " ", "g", "d", "z", "i", "e", " ",
     "I", "n", "U017C", "y", "n", "i", "e", "r", "i", "a", " ", "s", "p",
     "o", "t", "y", "k", "a", " ", "S", "P", "O", "R", "T", ",", " ", "1",
     "2", " ", "z", "a", "w", "o", "d", "n", "i", "k", "U00F3", "w", " ",
     "t", "e", "s", "t", "u", "j", "e", " ", "5", " ", "k", "U0142", "a",
     "d", "e", "k", ";", " ", "i", "l", "e", " ", "j", "e", "s", "t", " ",
     "p", "a", "r", " ", "z", "a", "w", "o", "d", "n", "i", "k", "U00F3",
     "w", ",", " ", "k", "t", "U00F3", "r", "y", "c", "h", " ", "s", "u",
     "m", "a", " ", "n", "u", "m", "e", "r", "U00F3", "w", " ", "d", "z",
     "i", "e", "l", "i", " ", "s", "i", "U0119", " ", "p", "r", "z", "e",
     "z", " ", "3", "?" >>

P_noscen ==
  << "N", "a", " ", "t", "a", "b", "l", "i", "c", "y", " ", "z", "a", "p",
     "i", "s", "a", "n", "o", " ", "l", "i", "c", "z", "b", "y", " ", "o",
     "d", " ", "1", " ", "d", "o", " ", "1", "2", ";", " ", "i", "l", "e",
     " ", "j", "e", "s", "t", " ", "p", "a", "r", " ", "r", "U00F3",
     "U017C", "n", "y", "c", "h", " ", "l", "i", "c", "z", "b", ",", " ",
     "k", "t", "U00F3", "r", "y", "c", "h", " ", "s", "u", "m", "a", " ",
     "d", "z", "i", "e", "l", "i", " ", "s", "i", "U0119", " ", "p", "r",
     "z", "e", "z", " ", "3", ",", " ", "a", " ", "i", "l", "o", "c", "z",
     "y", "n", " ", "j", "e", "s", "t", " ", "l", "i", "c", "z", "b",
     "U0105", " ", "p", "a", "r", "z", "y", "s", "t", "U0105", "?" >>

O_ok ==
  << "P", "o", "d", "z", "i", "e", "l", " ", "n", "u", "m", "e", "r", "y",
     " ", "n", "a", " ", "k", "l", "a", "s", "y", " ", "r", "e", "s", "z",
     "t", " ", "m", "o", "d", "u", "l", "o", " ", "3", ",", " ", "p", "o",
     "l", "i", "c", "z", " ", "p", "a", "r", "y", " ", "w", " ", "k", "l",
     "a", "s", "a", "c", "h", " ", "i", " ", "d", "o", "d", "a", "j", " ",
     "w", "y", "n", "i", "k", "i", "." >>

O_short ==
  << "P", "o", "l", "i", "c", "z", " ", "p", "a", "r", "y", "." >>

S_ok ==
  << "W", "y", "n", "i", "k", " ", "j", "e", "s", "t", " ", "l", "i", "c",
     "z", "b", "U0105", " ", "c", "a", "U0142", "k", "o", "w", "i", "t",
     "U0105", " ", "n", "i", "e", "u", "j", "e", "m", "n", "U0105", " ",
     "i", " ", "n", "i", "e", " ", "p", "r", "z", "e", "k", "r", "a", "c",
     "z", "a", " ", "l", "i", "c", "z", "b", "y", " ", "w", "s", "z", "y",
     "s", "t", "k", "i", "c", "h", " ", "p", "a", "r", "." >>

Rev ==
  << "D", "o", "p", "r", "e", "c", "y", "z", "u", "j", ",", " ", "c", "z",
     "y", " ", "p", "a", "r", "y", " ", "s", "U0105", " ", "u", "p", "o",
     "r", "z", "U0105", "d", "k", "o", "w", "a", "n", "e", "." >>

\* every text a field of a reply of the vocabulary can hold, by name
TextPool ==
  ("" :> <<>>)
  @@ ("true" :> <<"t", "r", "u", "e">>)
  @@ ("True" :> <<"T", "r", "u", "e">>)
  @@ ("TRUE" :> <<"T", "R", "U", "E">>)
  @@ ("false" :> <<"f", "a", "l", "s", "e">>)
  @@ ("yes" :> <<"y", "e", "s">>)
  @@ ("7" :> <<"7">>)
  @@ ("15" :> <<"1", "5">>)
  @@ ("-3" :> <<"-", "3">>)
  @@ ("abc" :> <<"a", "b", "c">>)
  @@ ("P_ok" :> P_ok)
  @@ ("P_noscen" :> P_noscen)
  @@ ("O_ok" :> O_ok)
  @@ ("O_short" :> O_short)
  @@ ("S_ok" :> S_ok)
  @@ ("Rev" :> Rev)

AliasReply ==
  << "U0060", "U0060", "U0060", "x", "m", "l", "\n", "<", " ", "Z", "a",
     "d", "a", "n", "i", "e", " ", ">", "W", " ", "h", "a", "l", "i", ",",
     " ", "g", "d", "z", "i", "e", " ", "I", "n", "U017C", "y", "n", "i",
     "e", "r", "i", "a", " ", "s", "p", "o", "t", "y", "k", "a", " ", "S",
     "P", "O", "R", "T", ",", " ", "&", "#", "4", "9", ";", "2", " ", "z",
     "a", "w", "o", "d", "n", "i", "k", "U00F3", "w", " ", "t", "e", "s",
     "t", "u", "j", "e", " ", "5", " ", "k", "U0142", "a", "d", "e", "k",
     ";", " ", "i", "l", "e", " ", "j", "e", "s", "t", " ", "p", "a", "r",
     " ", "z", "a", "w", "o", "d", "n", "i", "k", "U00F3", "w", ",", " ",
     "k", "t", "U00F3", "r", "y", "c", "h", " ", "s", "u", "m", "a", " ",
     "n", "u", "m", "e", "r", "U00F3", "w", " ", "d", "z", "i", "e", "l",
     "i", " ", "s", "i", "U0119", " ", "p", "r", "z", "e", "z", " ", "3",
     "?", "<", "/", "z", "a", "d", "a", "n", "i", "e", " ", ">", "\n",
     "U0060", "U0060", "U0060", "\n", "S", "z", "k", "i", "c", " ", "r",
     "o", "z", "w", "i", "U0105", "z", "a", "n", "i", "a", ":", " ", "P",
     "o", "d", "z", "i", "e", "l", " ", "n", "u", "m", "e", "r", "y", " ",
     "n", "a", " ", "k", "l", "a", "s", "y", " ", "r", "e", "s", "z", "t",
     " ", "m", "o", "d", "u", "l", "o", " ", "3", ",", " ", "p", "o", "l",
     "i", "c", "z", " ", "p", "a", "r", "y", " ", "w", " ", "k", "l", "a",
     "s", "a", "c", "h", " ", "i", " ", "d", "o", "d", "a", "j", " ", "w",
     "y", "n", "i", "k", "i", ".", "\n", "<", "w", "e", "r", "y", "f", "i",
     "k", "a", "c", "j", "a", ">", "\n", " ", "W", "y", "n", "i", "k", " ",
     "j", "e", "s", "t", " ", "l", "i", "c", "z", "b", "U0105", " ", "c",
     "a", "U0142", "k", "o", "w", "i", "t", "U0105", " ", "n", "i", "e",
     "u", "j", "e", "m", "n", "U0105", " ", "i", " ", "n", "i", "e", " ",
     "p", "r", "z", "e", "k", "r", "a", "c", "z", "a", " ", "l", "i", "c",
     "z", "b", "y", " ", "w", "s", "z", "y", "s", "t", "k", "i", "c", "h",
     " ", "p", "a", "r", ".", " ", "\n", "<", "/", "w", "e", "r", "y", "f",
     "i", "k", "a", "c", "j", "a", ">" >>

NL == <<"\n">>

\* <tag>body</tag>, the form the prompts ask a reply to take
Tagged(tag, body) ==
  <<"<">> \o TagChars[tag] \o <<">">> \o body \o <<"<", "/">> \o TagChars[tag] \o <<">">>

TrioReply(p, o, s) ==
  Tagged("problem", p) \o NL \o Tagged("solution_outline", o) \o NL
    \o Tagged("sanity_check", s)

VerdictReply(u, d, i, score, revised) ==
  Tagged("unambiguous", u) \o NL \o Tagged("difficulty_ok", d) \o NL
    \o Tagged("insight_present", i) \o NL \o Tagged("difficulty_score", score)
    \o NL \o Tagged("revised_problem", revised)

\* the reply vocabulary, by name
Replies ==
  ("junk" :> <<"P", "r", "z", "e", "p", "r", "a", "s", "z", "a", "m", ",", " ",
               "n", "i", "e", " ", "m", "o", "g", "U0119", " ", "t", "e", "r",
               "a", "z", " ", "p", "o", "m", "U00F3", "c", ".">>)
  @@ ("multi_ok" :> TrioReply(P_ok, O_ok, S_ok))
  @@ ("multi_alias" :> AliasReply)
  @@ ("multi_badproblem" :> TrioReply(P_noscen, O_ok, S_ok))
  @@ ("partial" :> Tagged("problem", P_ok) \o NL \o Tagged("solution_outline", O_short))
  @@ ("booleans" :> TrioReply(TextPool["true"], << >>, TextPool["True"]))
  @@ ("verdict_pass" :>
        VerdictReply(TextPool["true"], <<" ">> \o TextPool["True"] \o <<" ">>,
                     TextPool["TRUE"], TextPool["7"], << >>))
  @@ ("verdict_pass_hi" :>
        VerdictReply(TextPool["true"], TextPool["true"], TextPool["true"],
                     <<" ">> \o TextPool["15"] \o <<" ">>, Rev))
  @@ ("verdict_fail" :>
        VerdictReply(TextPool["true"], TextPool["false"], TextPool["true"],
                     TextPool["-3"], Rev))
  @@ ("verdict_fail_norev" :>
        VerdictReply(TextPool["yes"], TextPool["true"], TextPool["true"],
                     TextPool["abc"], <<" ", " ">>))

AllTags == DOMAIN TagChars

\* the name under which a text is held
NameOf(text) == CHOOSE nm \in DOMAIN TextPool : TextPool[nm] = text

\* The code's text functions on the vocabulary: _extract_tag of every reply
\* for every tag, str.strip and the three validators of every pool text.
\* (@@ << >> makes TLC tabulate a function once.)
ExtractComputed ==
  [rt \in (DOMAIN Replies) \X AllTags |->
     LET v == _extract_tag(Replies[rt[1]], rt[2])
     IN  IF v = None THEN None ELSE Some(NameOf(v[1]))] @@ << >>

StripComputed ==
  [nm \in DOMAIN TextPool |-> NameOf(Strip(TextPool[nm]))] @@ << >>

ProblemComputed ==
  [ts \in (DOMAIN TextPool) \X (DOMAIN SCENARIO_PL) |->
     _validate_problem(TextPool[ts[1]], "", polish_scenario_label(ts[2]))] @@ << >>

OutlineComputed ==
  [nm \in DOMAIN TextPool |-> _validate_outline(TextPool[nm])] @@ << >>

SanityComputed ==
  [nm \in DOMAIN TextPool |-> _validate_sanity(TextPool[nm])] @@ << >>

\* The same functions written out, which is what the steps of the machine
\* consult; TablesAgree states that they are the functions above.
ExtractTable ==
  [ junk |->
      [ problem |-> None, solution_outline |-> None,
        sanity_check |-> None, unambiguous |-> None,
        difficulty_ok |-> None, insight_present |-> None,
        difficulty_score |-> None, revised_problem |-> None ],
    multi_ok |->
      [ problem |-> Some("P_ok"), solution_outline |-> Some("O_ok"),
        sanity_check |-> Some("S_ok"), unambiguous |-> None,
        difficulty_ok |-> None, insight_present |-> None,
        difficulty_score |-> None, revised_problem |-> None ],
    multi_alias |->
      [ problem |-> Some("P_ok"), solution_outline |-> Some("O_ok"),
        sanity_check |-> Some("S_ok"), unambiguous |-> None,
        difficulty_ok |-> None, insight_present |-> None,
        difficulty_score |-> None, revised_problem |-> None ],
    multi_badproblem |->
      [ problem |-> Some("P_noscen"), solution_outline |-> Some("O_ok"),
        sanity_check |-> Some("S_ok"), unambiguous |-> None,
        difficulty_ok |-> None, insight_present |-> None,
        difficulty_score |-> None, revised_problem |-> None ],
    partial |->
      [ problem |-> Some("P_ok"), solution_outline |-> Some("O_short"),
        sanity_check |-> None, unambiguous |-> None,
        difficulty_ok |-> None, insight_present |-> None,
        difficulty_score |-> None, revised_problem |-> None ],
    booleans |->
      [ problem |-> Some("true"), solution_outline |-> Some(""),
        sanity_check |-> Some("True"), unambiguous |-> None,
        difficulty_ok |-> None, insight_present |-> None,
        difficulty_score |-> None, revised_problem |-> None ],
    verdict_pass |->
      [ problem |-> None, solution_outline |-> None,
        sanity_check |-> None, unambiguous |-> Some("true"),
        difficulty_ok |-> Some("True"), insight_present |-> Some("TRUE"),
        difficulty_score |-> Some("7"), revised_problem |-> Some("") ],
    verdict_pass_hi |->
      [ problem |-> None, solution_outline |-> None,
        sanity_check |-> None, unambiguous |-> Some("true"),
        difficulty_ok |-> Some("true"), insight_present |-> Some("true"),
        difficulty_score |-> Some("15"), revised_problem |-> Some("Rev") ],
    verdict_fail |->
      [ problem |-> None, solution_outline |-> None,
        sanity_check |-> None, unambiguous |-> Some("true"),
        difficulty_ok |-> Some("false"), insight_present |-> Some("true"),
        difficulty_score |-> Some("-3"), revised_problem |-> Some("Rev") ],
    verdict_fail_norev |->
      [ problem |-> None, solution_outline |-> None,
        sanity_check |-> None, unambiguous |-> Some("yes"),
        difficulty_ok |-> Some("true"), insight_present |-> Some("true"),
        difficulty_score |-> Some("abc"), revised_problem |-> Some("") ] ]

\* every pool text is the result of an extraction, which strips it
StripTable == [nm \in DOMAIN TextPool |-> nm]

\* the pool texts that pass _validate_problem, with the scenarios they pass it for
ProblemTable ==
  [ts \in (DOMAIN TextPool) \X (DOMAIN SCENARIO_PL) |->
     ts \in {<<"P_ok", "engineering">>, <<"P_ok", "sport">>}]

OutlineTable ==
  [nm \in DOMAIN TextPool |->
     nm \in {"P_ok", "P_noscen", "O_ok", "S_ok"}]

SanityTable ==
  [nm \in DOMAIN TextPool |->
     nm \in {"P_ok", "P_noscen", "O_ok", "S_ok"}]

TablesAgree ==
  /\ \A r \in DOMAIN Replies : \A t \in AllTags :
       ExtractTable[r][t] = ExtractComputed[<<r, t>>]
  /\ DOMAIN ExtractTable = DOMAIN Replies
  /\ StripTable = StripComputed
  /\ ProblemTable = ProblemComputed
  /\ OutlineTable = OutlineComputed
  /\ SanityTable = SanityComputed

(***************************************************************************)
(* Texts in the state.  A field text is either a text of a reply, held by  *)
(* its name in TextPool, or a text of the fallback, held by its            *)
(* parameters; the verification text of a Challenge is composed of a       *)
(* sanity text and the verifier note.                                      *)
(***************************************************************************)
Lit(nm) == [kind |-> "lit", name |-> nm]

FieldText(h) ==
  IF h.kind = "lit" THEN TextPool[h.name]
  ELSE FallbackTexts(h.scenario_pl, h.A, h.B, h.total, h.C_num, h.C_den)[h.field]

\* the two notes of generate_single
NotePositive ==
  << "(", "W", "e", "r", "y", "f", "i", "k", "a", "t", "o", "r", ":", " ", "z", "a", "d", "a", "n", "i", "e", " ",
     "j", "e", "d", "n", "o", "z", "n", "a", "c", "z", "n", "e", ",", " ", "z", " ", "w", "U0142", "a", "U015B",
     "c", "i", "w", "U0105", " ", "t", "r", "u", "d", "n", "o", "U015B", "c", "i", "U0105", " ", "i", " ", "w",
     "y", "r", "a", "U017A", "n", "y", "m", " ", "i", "n", "s", "i", "g", "h", "t", "e", "m", ".", ")" >>

NoteTuning ==
  << "(", "W", "e", "r", "y", "f", "i", "k", "a", "t", "o", "r", ":", " ", "m", "o", "U017C", "l", "i", "w", "e", " ",
     "d", "o", "s", "t", "r", "o", "j", "e", "n", "i", "e", " ", "j", "e", "s", "z", "c", "z", "e", " ", "p", "o",
     "t", "r", "z", "e", "b", "n", "e", ".", ")" >>

\* the other strings of a Challenge: a label of app/schemas.py, held by its
\* canonical key, and a challenge type, held by its index in its branch
Label(table, key) == [kind |-> "label", table |-> table, key |-> key]

TypeLabel(branch, index) == [kind |-> "type", branch |-> branch, index |-> index]

\* the verification text with the note of a failed verdict whatever the
\* verdict
VerificationTuning(sanity, positive) ==
  [kind |-> "verification", sanity |-> sanity, positive |-> FALSE]

\* (js["sanity_check"] + " " + note).strip()
Verification(sanity, positive) ==
  [kind |-> "verification", sanity |-> sanity, positive |-> positive]

\* the string a held text stands for
Text(h) ==
  CASE h.kind = "verification" ->
         Strip(FieldText(h.sanity) \o <<" ">>
                 \o (IF h.positive THEN NotePositive ELSE NoteTuning))
    [] h.kind = "label" ->
         (CASE h.table = "branch" -> polish_branch_label(h.key)
            [] h.table = "school_level" -> polish_level_label(h.key)
            [] h.table = "scenario" -> polish_scenario_label(h.key))
    [] h.kind = "type" -> BRANCH_TO_TYPES[h.branch][h.index]
    [] OTHER -> FieldText(h)

\* str.strip on a field text
StripText(h) ==
  IF h.kind = "lit" THEN Lit(StripTable[h.name])
  ELSE IF Strip(FieldText(h)) = FieldText(h) THEN h
  ELSE Lit(NameOf(Strip(FieldText(h))))

\* `if val is not None` in the place of `if val`
TruthyNotNone(h) == TRUE

\* the truth value Python gives a text: false for the empty string
Truthy(h) == IF h.kind = "lit" THEN h.name # "" ELSE FieldText(h) # << >>

\* the validation of a problem without the test of _contains_scenario
ValidProblemAnyScenario(h, branch_en, scenario_en) ==
  IF h.kind = "lit" THEN h.name \in {"P_ok", "P_noscen"}
  ELSE _validate_problem(FieldText(h), branch_en, polish_scenario_label(scenario_en))

\* the validators on a field text
ValidProblem(h, branch_en, scenario_en) ==
  IF h.kind = "lit" THEN ProblemTable[<<h.name, scenario_en>>]
  ELSE _validate_problem(FieldText(h), branch_en, polish_scenario_label(scenario_en))

ValidOutline(h) ==
  IF h.kind = "lit" THEN OutlineTable[h.name] ELSE _validate_outline(FieldText(h))

ValidSanity(h) ==
  IF h.kind = "lit" THEN SanityTable[h.name] ELSE _validate_sanity(FieldText(h))

\* _extract_tag on a reply of the vocabulary: None or Some(field text)
ExtractField(reply, tag) ==
  LET v == ExtractTable[reply][tag]
  IN  IF v = None THEN None ELSE Some(Lit(v[1]))

(***************************************************************************)
(* The batch orchestrator: generate_batch, generate_single,                *)
(* _generate_problem_bundle, _ask_for_tag, _ask_for_multi_tags, _verify.   *)
(* One step of the machine is one statement block of the code up to and    *)
(* including its next call of the collaborator (chat), whose outcome - a   *)
(* reply of the vocabulary, or an exception - is the environment's choice. *)
(***************************************************************************)
\* the default of the parameter n of generate_batch; app/main.py never
\* passes another value
DefaultN == 5

\* retries, the same at every call site
Retries == 3

\* the largest batch size explored with an unconstrained collaborator
MaxN == 1

\* the requests explored: the pair with a deterministic fallback, with the
\* example request of the specification, and a pair without one, with the
\* request of tests/generate_example.py
FractionsRequest ==
  [ branch |-> "Fractions",
    school_level |-> "lower elementary school (grades 1-5)",
    scenario |-> "engineering", seed |-> Some(42) ]

CombinatoricsRequest ==
  [ branch |-> "Combinatorics", school_level |-> "high school (grades 9-12)",
    scenario |-> "sport", seed |-> Some(1234) ]

Requests ==
  { FractionsRequest, CombinatoricsRequest,
    [CombinatoricsRequest EXCEPT !.seed = None] }

\* the requests explored with each behaviour of the collaborator
RequestsOf(m) ==
  CASE m = "junk" -> {FractionsRequest}
    [] m = "coop" -> Requests
    [] OTHER -> {FractionsRequest, CombinatoricsRequest}

\* the states random.Random() may start in when no seed is given
EntropyStates == {7, 4711}

\* the behaviours of the collaborator explored: "free" - any reply of the
\* vocabulary or an exception at every call; "junk" - the junk reply at
\* every call; "coop" - well-formed replies only
ReplyNames(m) ==
  CASE m = "junk" -> {"junk"}
    [] m = "coop" -> {"multi_ok", "verdict_pass", "verdict_pass_hi"}
    [] OTHER -> DOMAIN Replies

MayRaise(m) == m = "free"

VARIABLES mode, req, n,        \* the collaborator's behaviour; the request; n
          pc,                  \* the position of the program
          rng,                 \* the state of the random.Random of the batch
          types, idx,            \* generate_batch: the sampled types, the loop index
          candidates, selected,
          seed_tag, js,        \* generate_single
          genRuns, verRuns,    \* runs of _generate_problem_bundle / of _verify
                               \* begun in this item: 1, or 2 in the revision cycle
          att,                 \* repair calls made so far in the running _ask_for_*
          problem, solution_outline, sanity_check,   \* _generate_problem_bundle
          last,                \* the latest call of the collaborator and how it ended
          err,                 \* the exception generate_batch ended with
          calls,               \* calls of chat counted for the item (one item on its own)
          asked,               \* generate_get: the query parameter n
          input, output,       \* a text function: its argument and what it returned
          now,                 \* the clock: what time.time() returns
          _minute, _daily,     \* SlidingWindowLimiter: the deques and the day records
          answers,             \* the calls of allow so far and what they returned
          threads,             \* the calls of allow under way, one a worker thread
          attempt, last_err,   \* _chat_completion_safe: the loop variable and last_err
          tried,               \* how the attempts of chat_completion so far ended
          resp                 \* what chat returned or raised

vars == << mode, req, n, pc, rng, types, idx, candidates, selected, seed_tag, js,
           genRuns, verRuns, att, problem, solution_outline,
           sanity_check, last, err, calls, asked, input, output, now,
           _minute, _daily, answers, threads, attempt, last_err, tried,
           resp >>

\* the variables of the text functions and of the limiter
textVars == << input, output >>

limiterVars == << now, _minute, _daily, answers, threads >>

llmVars == << attempt, last_err, tried, resp >>

\* no text function has been called
TextIdle == input = << >> /\ output = << >>

\* the limiter is not in use
LimiterIdle ==
  /\ now = 0
  /\ _minute = << >>
  /\ _daily = << >>
  /\ answers = << >>
  /\ threads = << >>

\* chat has not been called
LlmIdle ==
  /\ attempt = 0
  /\ last_err = << >>
  /\ tried = << >>
  /\ resp = << >>

NoCall ==
  [site |-> "none", reply |-> "none", result |-> "none", out |-> None,
   temp |-> 0]

\* the batch sizes asked of GET /generate
AskedSizes == {3, DefaultN}

\* generate_batch(req, n) is called directly when the collaborator is
\* unconstrained, and through generate_get with the query parameter n = asked
\* otherwise
Init ==
  /\ mode \in {"free", "junk", "coop"}
  /\ req \in RequestsOf(mode)
  /\ \/ /\ mode = "free"
        /\ n \in 1..MaxN
        /\ asked = 0
        /\ pc = "generate_batch"
     \/ /\ mode # "free"
        /\ n = 0
        /\ asked \in AskedSizes
        /\ pc = "generate_get"
  /\ TextIdle
  /\ LimiterIdle
  /\ LlmIdle
  /\ rng = 0
  /\ types = << >>
  /\ idx = 0
  /\ candidates = << >>
  /\ selected = << >>
  /\ seed_tag = 0
  /\ js = None
  /\ genRuns = 0
  /\ verRuns = 0
  /\ att = 0
  /\ problem = None
  /\ solution_outline = None
  /\ sanity_check = None
  /\ last = NoCall
  /\ err = None
  /\ calls = 0

\* int(round(1.6 * n)): 1.6 n is never halfway between two integers
Round16(k) == (16 * k + 5) \div 10

\* pool_size without the lower limit n + 2
pool_size_unfloored(k) == Min({k + 5, Round16(k)})

pool_size(k) == Max({k + 2, Min({k + 5, Round16(k)})})

(***************************************************************************)
(* The rate limiter of the endpoints (app/rate_limit.py): a                *)
(* SlidingWindowLimiter built with max_per_minute and max_per_day.         *)
(***************************************************************************)
max_per_minute == 2

max_per_day == 3

\* the key of the client of a request: _client_ip(req)
ClientIp == "10.0.0.1"

Keys == {ClientIp, "10.0.0.2"}

\* d[key] of a defaultdict whose factory returns default
Lookup(d, key, default) == IF key \in DOMAIN d THEN d[key] ELSE default

\* the dict in which every key holds v after d[key] = v
StoreForAll(d, key, v) == [k \in DOMAIN d \cup {key} |-> v]

\* the dict after d[key] = v
Store(d, key, v) ==
  [k \in DOMAIN d \cup {key} |-> IF k = key THEN v ELSE d[k]]

\* time.strftime("%Y-%m-%d", time.gmtime(t)): the UTC day, held by its
\* number; None stands for the "" of a fresh record
UtcDay(t) == Some(t \div 86400)

FreshRecord == [day |-> None, count |-> 0]

\* the deque that drops every entry older than the cutoff, oldest first, and
\* stops at the first entry it keeps, whatever lies behind it
RECURSIVE PrunedEager(_, _)
PrunedEager(dq, cutoff) ==
  IF dq # << >> /\ dq[1] <= cutoff THEN PrunedEager(Tail(dq), cutoff) ELSE dq

\* while dq and dq[0] < cutoff: dq.popleft()
RECURSIVE Pruned(_, _)
Pruned(dq, cutoff) ==
  IF dq # << >> /\ dq[1] < cutoff THEN Pruned(Tail(dq), cutoff) ELSE dq

\* the record that takes the new day and keeps its count
RefreshedKeepingCount(rec, day) == [rec EXCEPT !.day = day]

\* if rec["day"] != day: rec["day"] = day; rec["count"] = 0
Refreshed(rec, day) ==
  IF rec.day # day THEN [day |-> day, count |-> 0] ELSE rec

\* what a call of allow returned: (False, message, retry_after) or
\* (True, None, None)
Answer(key, at, allowed, retry_after) ==
  [key |-> key, at |-> at, allowed |-> allowed, retry_after |-> retry_after]

\* SlidingWindowLimiter.allow(key) with time.time() reading t
allow(key, t) ==
  LET dq == Pruned(Lookup(_minute, key, << >>), t - 60)
      rec == Refreshed(Lookup(_daily, key, FreshRecord), UtcDay(t))
  IN  /\ now' = t
      /\ threads' = threads
      /\ IF Len(dq) >= max_per_minute
           THEN /\ _minute' = Store(_minute, key, dq)
                /\ _daily' = _daily
                /\ answers' = Append(answers,
                                Answer(key, t, FALSE,
                                       Some(Max({1, dq[1] + 60 - t}))))
         ELSE IF rec.count >= max_per_day
           THEN /\ _minute' = Store(_minute, key, dq)
                /\ _daily' = Store(_daily, key, rec)
                /\ answers' = Append(answers, Answer(key, t, FALSE, Some(3600)))
         ELSE /\ _minute' = Store(_minute, key, Append(dq, t))
              /\ _daily' = Store(_daily, key, [rec EXCEPT !.count = @ + 1])
              /\ answers' = Append(answers, Answer(key, t, TRUE, None))

\* headers = {"Retry-After": str(retry or 60)}: the number of the header
RetryAfterHeader(retry) ==
  IF retry = None \/ retry[1] = 0 THEN 60 ELSE retry[1]

\* the HTTPException of enforce_rate_limit for a refusal
TooManyRequests(answer) ==
  [type |-> "HTTPException", site |-> pc, status_code |-> 429,
   retry_after |-> RetryAfterHeader(answer.retry_after)]

\* generate_get going on to parse and generate whatever the limiter answers
GenerateGetUnguarded ==
  /\ pc = "generate_get"
  /\ allow(ClientIp, now)
  /\ n' = DefaultN
  /\ pc' = "generate_batch"
  /\ UNCHANGED << asked, textVars, llmVars, mode, req, rng, types, idx, candidates,
                  selected, seed_tag, js, genRuns, verRuns, att, problem,
                  solution_outline, sanity_check, last, err >>

\* generate_get: enforce_rate_limit raises when the limiter refuses the
\* client; GenerateRequest has no field n, so `n=n or 5` is dropped when the
\* request is built, and generate_batch(parsed) runs with the default of its
\* parameter n
GenerateGet ==
  /\ pc = "generate_get"
  /\ allow(ClientIp, now)
  /\ IF answers'[Len(answers')].allowed
       THEN /\ n' = DefaultN
            /\ pc' = "generate_batch"
            /\ err' = err
       ELSE /\ n' = n
            /\ pc' = "raised"
            /\ err' = Some(TooManyRequests(answers'[Len(answers')]))
  /\ UNCHANGED << asked, textVars, llmVars, mode, req, rng, types, idx, candidates,
                  selected, seed_tag, js, genRuns, verRuns, att, problem,
                  solution_outline, sanity_check, last >>

\* generate_post: enforce_rate_limit, then GenerateRequest(**body) and
\* generate_batch(parsed) with the default of its parameter n
GeneratePost ==
  /\ pc = "generate_post"
  /\ allow(ClientIp, now)
  /\ IF answers'[Len(answers')].allowed
       THEN /\ n' = DefaultN
            /\ pc' = "generate_batch"
            /\ err' = err
       ELSE /\ n' = n
            /\ pc' = "raised"
            /\ err' = Some(TooManyRequests(answers'[Len(answers')]))
  /\ UNCHANGED << asked, textVars, llmVars, mode, req, rng, types, idx, candidates,
                  selected, seed_tag, js, genRuns, verRuns, att, problem,
                  solution_outline, sanity_check, last >>

\* generate_batch up to the call of pick_types_for_batch
GenerateBatch ==
  /\ pc = "generate_batch"
  /\ \/ /\ req.seed # None
        /\ rng' = RngSeed(req.seed[1])
     \/ /\ req.seed = None
        /\ rng' \in EntropyStates
  /\ pc' = "pick_types"
  /\ UNCHANGED << asked, textVars, limiterVars, llmVars, mode, req, n, types, idx, candidates, selected, seed_tag, js,
                  genRuns, verRuns, att, problem,
                  solution_outline, sanity_check, last, err >>

\* pick_types_for_batch without the count of the types chosen
TypeCountNone(chosen, t) == 0

\* counts.get(t, 0) in pick_types_for_batch
TypeCount(chosen, t) == Cardinality({k \in 1..Len(chosen) : chosen[k] = t})

\* one iteration of the while loop of pick_types_for_batch; a type is held
\* by its index in BRANCH_TO_TYPES[branch].  The statement after the loop
\* (the return into generate_batch and the start of its for loop) is taken
\* with the iteration that completes the list.
PickType ==
  /\ pc = "pick_types"
  /\ Len(types) < pool_size(n)
  /\ LET pool == BRANCH_TO_TYPES[req.branch]
         t == RandBelow(rng, Len(pool)) + 1
         chosen == IF TypeCount(types, t) < 2 THEN Append(types, t) ELSE types
     IN  /\ rng' = RngStep(rng)
         /\ types' = chosen
         /\ IF Len(chosen) < pool_size(n)
              THEN pc' = "pick_types" /\ idx' = idx
              ELSE pc' = "generate_single" /\ idx' = 1
  /\ UNCHANGED << asked, textVars, limiterVars, llmVars, mode, req, n, candidates, selected, seed_tag, js,
                  genRuns, verRuns, att, problem, solution_outline,
                  sanity_check, last, err >>

\* generate_single up to the first call of the collaborator
GenerateSingle ==
  /\ pc = "generate_single"
  /\ seed_tag' = RandInt(rng, 1, 1000000000)
  /\ rng' = RngStep(rng)
  /\ pc' = "multi_tags"
  /\ genRuns' = 1
  /\ verRuns' = 0
  /\ att' = 0
  /\ js' = None
  /\ last' = NoCall
  /\ UNCHANGED << asked, textVars, limiterVars, llmVars, mode, req, n, types, idx, candidates, selected, problem,
                  solution_outline, sanity_check, err >>

\* what a call of chat may do: return a reply, or raise
Outcomes(m) == ReplyNames(m) \cup (IF MayRaise(m) THEN {"raise"} ELSE {})

TrioTags == {"problem", "solution_outline", "sanity_check"}

VerdictTags ==
  {"unambiguous", "difficulty_ok", "insight_present", "difficulty_score",
   "revised_problem"}

\* dict.get(key): None (here << >>) for a missing key
DictGet(d, key) == IF key \in DOMAIN d THEN Some(d[key]) ELSE None

\* dict.get(key, "") and `value or ""`
OrEmpty(v) == IF v = None THEN Lit("") ELSE v[1]

\* try_once keeping the tags it found
try_once_partial(txt, tags) ==
  [t \in {u \in tags : ExtractField(txt, u) # None} |->
     StripText(ExtractField(txt, t)[1])]

\* try_once of _ask_for_multi_tags on the reply txt: the dict out, which is
\* empty (<< >>) when a tag is missing
try_once(txt, tags) ==
  IF \E t \in tags : ExtractField(txt, t) = None THEN << >>
  ELSE [t \in tags |-> StripText(ExtractField(txt, t)[1])]

\* the temperature, in hundredths, of the call of chat made at a site after a
\* number of repair calls of the same request: _ask_for_multi_tags passes its
\* temp to every call of try_once (0.28 for the bundle, 0.22 in _verify),
\* _ask_for_tag passes its temp to the first call and 0.22 to each repair
\* call, and the corrective calls state theirs
Temperature(site, made) ==
  CASE site = "multi_tags" -> 28
    [] site = "verify" -> 22
    [] site = "ask_problem" -> IF made = 0 THEN 32 ELSE 22
    [] site = "ask_outline" -> IF made = 0 THEN 28 ELSE 22
    [] site = "ask_sanity" -> IF made = 0 THEN 24 ELSE 22
    [] site = "fix_problem" -> 26
    [] site = "fix_outline" -> 24
    [] site = "fix_sanity" -> 22

\* the record of a call for the variable last
Call(reply, result, out) ==
  [site |-> pc, reply |-> reply, result |-> result, out |-> out,
   temp |-> Temperature(pc, att)]

\* the multi-field bundle returned without the three validations
ValidTrioAlways(d) == TRUE

\* the three validations of a bundle given as a dict
ValidTrio(d) ==
  /\ ValidProblem(OrEmpty(DictGet(d, "problem")), req.branch, req.scenario)
  /\ ValidOutline(OrEmpty(DictGet(d, "solution_outline")))
  /\ ValidSanity(OrEmpty(DictGet(d, "sanity_check")))

\* _generate_problem_bundle returns bundle, having left the generator in
\* state r; generate_single goes on to _verify
ReturnBundle(bundle, r) ==
  /\ js' = bundle
  /\ rng' = r
  /\ pc' = "verify"
  /\ verRuns' = verRuns + 1
  /\ att' = 0
  /\ problem' = None
  /\ solution_outline' = None
  /\ sanity_check' = None
  /\ UNCHANGED << genRuns, err >>

\* an exception of _generate_problem_bundle caught nowhere
RaiseFromBundleUncaught(e) ==
  /\ pc' = "raised"
  /\ err' = Some(e)
  /\ att' = 0
  /\ problem' = None
  /\ solution_outline' = None
  /\ sanity_check' = None
  /\ UNCHANGED << js, rng, genRuns, verRuns >>

\* an exception leaves _generate_problem_bundle: the regeneration of the
\* revision cycle catches it (js2 = js), the first generation does not
RaiseFromBundle(e) ==
  IF genRuns = 2
    THEN ReturnBundle(js, rng)
    ELSE /\ pc' = "raised"
         /\ err' = Some(e)
         /\ att' = 0
         /\ problem' = None
         /\ solution_outline' = None
         /\ sanity_check' = None
         /\ UNCHANGED << js, rng, genRuns, verRuns >>

\* the next position inside _generate_problem_bundle
Goto(p) ==
  /\ pc' = p
  /\ att' = 0
  /\ UNCHANGED << js, rng, genRuns, verRuns, err >>

\* a repair call that is not counted among the retries
RetryUncounted ==
  /\ att' = att
  /\ UNCHANGED << pc, js, rng, genRuns, verRuns, err, problem,
                  solution_outline, sanity_check >>

Retry ==
  /\ att' = att + 1
  /\ UNCHANGED << pc, js, rng, genRuns, verRuns, err, problem,
                  solution_outline, sanity_check >>

\* tier 1 of _generate_problem_bundle: one call of try_once of
\* _ask_for_multi_tags for the three fields, and what follows its reply
AskMulti ==
  /\ pc = "multi_tags"
  /\ \E o \in Outcomes(mode) :
       LET out == IF o = "raise" THEN << >> ELSE try_once(o, TrioTags)
       IN  IF o = "raise"
             THEN /\ last' = Call(o, "raise", None)
                  /\ Goto("ask_problem")
                  /\ UNCHANGED << problem, solution_outline, sanity_check >>
           ELSE IF out # << >>
             THEN /\ last' = Call(o, "return", Some(out))
                  /\ IF ValidTrio(out)
                       THEN ReturnBundle([k \in TrioTags |-> StripText(out[k])], rng)
                       ELSE /\ Goto("ask_problem")
                            /\ UNCHANGED << problem, solution_outline, sanity_check >>
           ELSE IF att < Retries
             THEN /\ last' = Call(o, "retry", None)
                  /\ Retry
           ELSE /\ last' = Call(o, "ValueError", None)
                /\ Goto("ask_problem")
                /\ UNCHANGED << problem, solution_outline, sanity_check >>
  /\ UNCHANGED << asked, textVars, limiterVars, llmVars, mode, req, n, types, idx, candidates, selected, seed_tag >>

AskSite ==
  [problem |-> "ask_problem", solution_outline |-> "ask_outline",
   sanity_check |-> "ask_sanity"]

FixSite ==
  [problem |-> "fix_problem", solution_outline |-> "fix_outline",
   sanity_check |-> "fix_sanity"]

\* the local variable of _generate_problem_bundle that holds a field
Field(tag) ==
  CASE tag = "problem" -> problem
    [] tag = "solution_outline" -> solution_outline
    [] tag = "sanity_check" -> sanity_check

SetField(tag, v) ==
  /\ problem' = (IF tag = "problem" THEN v ELSE problem)
  /\ solution_outline' = (IF tag = "solution_outline" THEN v ELSE solution_outline)
  /\ sanity_check' = (IF tag = "sanity_check" THEN v ELSE sanity_check)

ValidField(tag, h) ==
  CASE tag = "problem" -> ValidProblem(h, req.branch, req.scenario)
    [] tag = "solution_outline" -> ValidOutline(h)
    [] tag = "sanity_check" -> ValidSanity(h)

\* the hard gate testing the problem only
HardGateProblemOnly(p, o, s, branch_en, level_en, scenario_en, r) ==
  IF ~ValidProblem(p, branch_en, scenario_en)
    THEN _fallback_fractions_sp_1_5(polish_scenario_label(scenario_en), r)
    ELSE [ bundle |-> [problem |-> StripText(p), solution_outline |-> StripText(o),
                       sanity_check |-> StripText(s)],
           rng |-> r ]

\* the hard gate without the last resort for the other branches
HardGateNoGeneric(p, o, s, branch_en, level_en, scenario_en, r) ==
  LET fb == _deterministic_fallback(branch_en, level_en,
                                    polish_scenario_label(scenario_en), r)
  IN  IF ~(ValidProblem(p, branch_en, scenario_en) /\ ValidOutline(o) /\ ValidSanity(s))
         /\ fb # None
        THEN fb[1]
        ELSE [ bundle |-> [problem |-> StripText(p), solution_outline |-> StripText(o),
                           sanity_check |-> StripText(s)],
               rng |-> r ]

\* step 3 of _generate_problem_bundle, the hard gate, on the three fields
\* of the per-field tier: the bundle returned and the state of the
\* generator after it
HardGate(p, o, s, branch_en, level_en, scenario_en, r) ==
  IF ~(ValidProblem(p, branch_en, scenario_en) /\ ValidOutline(o) /\ ValidSanity(s))
    THEN LET fb == _deterministic_fallback(branch_en, level_en,
                                           polish_scenario_label(scenario_en), r)
         IN  IF fb # None THEN fb[1]
             ELSE _fallback_fractions_sp_1_5(polish_scenario_label(scenario_en), r)
    ELSE [ bundle |-> [problem |-> StripText(p), solution_outline |-> StripText(o),
                       sanity_check |-> StripText(s)],
           rng |-> r ]

\* what follows the tier of a field once its value v is settled: the tier
\* of the next field, or the hard gate after the last one
AfterTier(tag, v) ==
  IF tag = "sanity_check"
    THEN LET g == HardGate(problem, solution_outline, v, req.branch,
                           req.school_level, req.scenario, rng)
         IN  ReturnBundle(g.bundle, g.rng)
    ELSE /\ Goto(IF tag = "problem" THEN "ask_outline" ELSE "ask_sanity")
         /\ SetField(tag, v)

\* tier 2 of _generate_problem_bundle: one call of the collaborator inside
\* _ask_for_tag for a field, and what follows its reply
AskTag(tag) ==
  /\ pc = AskSite[tag]
  /\ \E o \in Outcomes(mode) :
       LET val == IF o = "raise" THEN None ELSE ExtractField(o, tag)
       IN  IF o = "raise"
             THEN /\ last' = Call(o, "raise", None)
                  /\ RaiseFromBundle([type |-> "ChatError", site |-> pc])
           ELSE IF val # None /\ Truthy(val[1])
             THEN /\ last' = Call(o, "return", val)
                  /\ IF ValidField(tag, val[1])
                       THEN AfterTier(tag, val[1])
                       ELSE Goto(FixSite[tag]) /\ SetField(tag, val[1])
           ELSE IF att < Retries
             THEN /\ last' = Call(o, "retry", None)
                  /\ Retry
           ELSE /\ last' = Call(o, "ValueError", None)
                /\ RaiseFromBundle([type |-> "ValueError", site |-> pc])
  /\ UNCHANGED << asked, textVars, limiterVars, llmVars, mode, req, n, types, idx, candidates, selected, seed_tag >>

AskProblem == AskTag("problem")

AskOutline == AskTag("solution_outline")

AskSanity == AskTag("sanity_check")

\* the corrective call taking over whatever value it extracts
FixTagUnvalidated(tag) ==
  /\ pc = FixSite[tag]
  /\ \E o \in Outcomes(mode) :
       LET cand == IF o = "raise" THEN None ELSE ExtractField(o, tag)
           kept == IF cand # None /\ Truthy(cand[1]) THEN cand[1] ELSE Field(tag)
       IN  IF o = "raise"
             THEN /\ last' = Call(o, "raise", None)
                  /\ RaiseFromBundle([type |-> "ChatError", site |-> pc])
             ELSE /\ last' = Call(o, "fix", Some(kept))
                  /\ AfterTier(tag, kept)
  /\ UNCHANGED << asked, textVars, limiterVars, llmVars, mode, req, n, types, idx, candidates, selected, seed_tag >>

\* the corrective call for a field that failed its validator, and what
\* follows its reply
FixTag(tag) ==
  /\ pc = FixSite[tag]
  /\ \E o \in Outcomes(mode) :
       LET cand == IF o = "raise" THEN None ELSE ExtractField(o, tag)
           kept == IF cand # None /\ Truthy(cand[1]) /\ ValidField(tag, cand[1])
                     THEN cand[1] ELSE Field(tag)
       IN  IF o = "raise"
             THEN /\ last' = Call(o, "raise", None)
                  /\ RaiseFromBundle([type |-> "ChatError", site |-> pc])
             ELSE /\ last' = Call(o, "fix", Some(kept))
                  /\ AfterTier(tag, kept)
  /\ UNCHANGED << asked, textVars, limiterVars, llmVars, mode, req, n, types, idx, candidates, selected, seed_tag >>

FixProblem == FixTag("problem")

FixOutline == FixTag("solution_outline")

FixSanity == FixTag("sanity_check")

\* _to_bool comparing without .lower()
_to_bool_cased(s) == Strip(FieldText(OrEmpty(s))) = <<"t", "r", "u", "e">>

\* _to_bool of generate_single on the value of verdict.get(key)
_to_bool(s) == Lower(Strip(FieldText(OrEmpty(s)))) = <<"t", "r", "u", "e">>

\* the decimal literals int() accepts: an optional sign and digits
\* (underscores and non-ASCII digits are left out)
IsIntLiteral(s) ==
  LET d == IF s # << >> /\ s[1] \in {"+", "-"} THEN Tail(s) ELSE s
  IN  d # << >> /\ \A k \in 1..Len(d) : IsDigit(d[k])

IntValue(s) ==
  IF s[1] = "-" THEN 0 - DigitsValue(Tail(s))
  ELSE IF s[1] = "+" THEN DigitsValue(Tail(s))
  ELSE DigitsValue(s)

\* _to_int without max(0, min(10, v))
_to_int_unclamped(s) ==
  LET t == Strip(FieldText(OrEmpty(s)))
  IN  IF IsIntLiteral(t) THEN IntValue(t) ELSE 0

\* _to_int of generate_single on the value of verdict.get(key)
_to_int(s) ==
  LET t == Strip(FieldText(OrEmpty(s)))
      v == IF IsIntLiteral(t) THEN IntValue(t) ELSE 0
  IN  Max({0, Min({10, v})})

\* the revision cycle entered after every failed verdict
NeedsRevisionAgain(run, unamb, diffok, insight) ==
  ~unamb \/ ~diffok \/ ~insight

\* the condition of the revision cycle, which generate_single tests once,
\* on the verdict of its first call of _verify (run = 1)
NeedsRevision(run, unamb, diffok, insight) ==
  run = 1 /\ (~unamb \/ ~diffok \/ ~insight)

\* the regeneration run without the test of revised.strip()
HasRevisionAlways(revised) == TRUE

\* `if revised.strip():`, the condition of the regeneration
HasRevision(revised) == Truthy(StripText(revised))

\* the Challenge generate_single builds
MakeChallenge(k, bundle, positive) ==
  [ id |-> k,
    branch |-> Label("branch", req.branch),
    school_level |-> Label("school_level", req.school_level),
    scenario |-> Label("scenario", req.scenario),
    challenge_type |-> TypeLabel(req.branch, types[idx]),
    tool |-> <<"U2014">>,
    problem |-> bundle["problem"],
    solution_outline |-> bundle["solution_outline"],
    verification |-> Verification(bundle["sanity_check"], positive) ]

\* one call of try_once of _ask_for_multi_tags inside _verify, and what
\* generate_single does with the verdict it returns
Verify ==
  /\ pc = "verify"
  /\ \E o \in Outcomes(mode) :
       LET out == IF o = "raise" THEN << >> ELSE try_once(o, VerdictTags)
           unamb == _to_bool(DictGet(out, "unambiguous"))
           diffok == _to_bool(DictGet(out, "difficulty_ok"))
           insight == _to_bool(DictGet(out, "insight_present"))
           score == _to_int(DictGet(out, "difficulty_score"))
           revised == OrEmpty(DictGet(out, "revised_problem"))
       IN  IF o = "raise"
             THEN /\ last' = Call(o, "raise", None)
                  /\ pc' = "raised"
                  /\ err' = Some([type |-> "ChatError", site |-> pc])
                  /\ att' = 0
                  /\ UNCHANGED << js, genRuns, verRuns, candidates, idx >>
           ELSE IF out # << >>
             THEN /\ last' = Call(o, "return", Some(out))
                  /\ att' = 0
                  /\ err' = err
                  /\ IF NeedsRevision(verRuns, unamb, diffok, insight)
                       THEN /\ IF HasRevision(revised)
                                 THEN /\ pc' = "multi_tags"
                                      /\ genRuns' = genRuns + 1
                                      /\ verRuns' = verRuns
                                 ELSE /\ pc' = "verify"
                                      /\ genRuns' = genRuns
                                      /\ verRuns' = verRuns + 1
                            /\ UNCHANGED << js, candidates, idx >>
                       ELSE /\ candidates' =
                                 Append(candidates,
                                        [ ch |-> MakeChallenge(idx, js, unamb /\ diffok /\ insight),
                                          score |-> score ])
                            /\ idx' = idx + 1
                            /\ pc' = IF idx < Len(types) THEN "generate_single" ELSE "select"
                            /\ UNCHANGED << js, genRuns, verRuns >>
           ELSE IF att < Retries
             THEN /\ last' = Call(o, "retry", None)
                  /\ att' = att + 1
                  /\ UNCHANGED << pc, err, js, genRuns, verRuns, candidates, idx >>
           ELSE /\ last' = Call(o, "ValueError", None)
                /\ pc' = "raised"
                /\ err' = Some([type |-> "ValueError", site |-> pc])
                /\ att' = 0
                /\ UNCHANGED << js, genRuns, verRuns, candidates, idx >>
  /\ UNCHANGED << asked, textVars, limiterVars, llmVars, mode, req, n, rng, types, selected, seed_tag, problem,
                  solution_outline, sanity_check >>

\* the sort of generate_batch without reverse=True
LowerScore(a, b) == a.score < b.score

\* the key of the sort of generate_batch, reverse=True
HigherScore(a, b) == a.score > b.score

\* the renumbering left out
RenumberNone(sorted, kept) == sorted

\* `for i, ch in enumerate(selected, start=1): ch.id = i` on the sorted
\* candidates, of which the first kept are the selected ones
Renumber(sorted, kept) ==
  [k \in 1..Len(sorted) |->
     IF k <= kept THEN [sorted[k] EXCEPT !.ch.id = k] ELSE sorted[k]]

\* the end of generate_batch: shuffle, sort, cut to n, renumber
Select ==
  /\ pc = "select"
  /\ LET sh == RngShuffle(candidates, rng)
         sorted == StableSort(sh.list, HigherScore)
         kept == Min({n, Len(sorted)})
         renumbered == Renumber(sorted, kept)
     IN  /\ rng' = sh.rng
         /\ candidates' = renumbered
         /\ selected' = [k \in 1..kept |-> renumbered[k].ch]
  /\ pc' = "done"
  /\ last' = NoCall
  /\ UNCHANGED << asked, textVars, limiterVars, llmVars, mode, req, n, types, idx, seed_tag, js, genRuns, verRuns, att,
                  problem, solution_outline, sanity_check, err >>

\* the calls of chat are counted where one item is followed on its own,
\* and not elsewhere
Uncounted == calls' = calls

\* a step that makes one call of chat
Counted == calls' = calls + 1

Next ==
  \/ GenerateGet /\ Uncounted
  \/ GenerateBatch /\ Uncounted
  \/ PickType /\ Uncounted
  \/ GenerateSingle /\ Uncounted
  \/ AskMulti /\ Uncounted
  \/ AskProblem /\ Uncounted
  \/ FixProblem /\ Uncounted
  \/ AskOutline /\ Uncounted
  \/ FixOutline /\ Uncounted
  \/ AskSanity /\ Uncounted
  \/ FixSanity /\ Uncounted
  \/ Verify /\ Uncounted
  \/ Select /\ Uncounted

Spec == Init /\ [][Next]_vars

(***************************************************************************)
(* One item on its own: generate_batch(req, 1) with an unconstrained       *)
(* collaborator, followed until its first call of generate_single returns  *)
(* or raises, every call of chat counted.                                  *)
(***************************************************************************)
ItemInit == Init /\ mode = "free" /\ n = 1

\* the first call of generate_single has returned or raised
ItemEnded == pc = "raised" \/ Len(candidates) = 1

ItemNext ==
  \/ GenerateBatch /\ Uncounted
  \/ PickType /\ Uncounted
  \/ ~ItemEnded /\ GenerateSingle /\ Uncounted
  \/ AskMulti /\ Counted
  \/ AskProblem /\ Counted
  \/ FixProblem /\ Counted
  \/ AskOutline /\ Counted
  \/ FixOutline /\ Counted
  \/ AskSanity /\ Counted
  \/ FixSanity /\ Counted
  \/ Verify /\ Counted

ItemSpec == ItemInit /\ [][ItemNext]_vars

\* generate_single runs on: a sequential program takes its next step
FairItemSpec == ItemSpec /\ WF_vars(ItemNext)

(***************************************************************************)
(* The two /generate endpoints under the limiter: requests of one client   *)
(* arrive one after the other, MaxRequests of them at most, each at the    *)
(* clock reading of the one before plus a step of ArrivalSteps; the        *)
(* collaborator answers junk, so an allowed request ends when              *)
(* _ask_for_tag gives up.                                                  *)
(***************************************************************************)
MaxRequests == 4

ArrivalSteps == {0, 61}

EndpointInit == Init /\ mode = "junk"

\* the request before has been answered and the next one arrives, by GET
\* or by POST: the handler starts with nothing computed
Arrive ==
  /\ pc \in {"done", "raised"}
  /\ Len(answers) < MaxRequests
  /\ \E step \in ArrivalSteps : now' = now + step
  /\ \/ pc' = "generate_get" /\ asked' = DefaultN
     \/ pc' = "generate_post" /\ asked' = 0
  /\ n' = 0
  /\ rng' = 0
  /\ types' = << >>
  /\ idx' = 0
  /\ candidates' = << >>
  /\ selected' = << >>
  /\ seed_tag' = 0
  /\ js' = None
  /\ genRuns' = 0
  /\ verRuns' = 0
  /\ att' = 0
  /\ problem' = None
  /\ solution_outline' = None
  /\ sanity_check' = None
  /\ last' = NoCall
  /\ err' = None
  /\ calls' = 0
  /\ UNCHANGED << mode, req, textVars, llmVars, _minute, _daily, answers, threads >>

EndpointNext ==
  \/ Arrive
  \/ GenerateGet /\ Uncounted
  \/ GeneratePost /\ Uncounted
  \/ GenerateBatch /\ Uncounted
  \/ PickType /\ Uncounted
  \/ GenerateSingle /\ Uncounted
  \/ AskMulti /\ Counted
  \/ AskProblem /\ Counted

EndpointSpec == EndpointInit /\ [][EndpointNext]_vars

(***************************************************************************)
(* The sampling of the types on its own: generate_batch(req, n) for n up   *)
(* to MaxPickN, followed until pick_types_for_batch returns.               *)
(***************************************************************************)
MaxPickN == 6

PickInit ==
  /\ mode = "free"
  /\ req \in {FractionsRequest, CombinatoricsRequest}
  /\ n \in 1..MaxPickN
  /\ pc = "generate_batch"
  /\ rng = 0
  /\ types = << >>
  /\ idx = 0
  /\ candidates = << >>
  /\ selected = << >>
  /\ seed_tag = 0
  /\ js = None
  /\ genRuns = 0
  /\ verRuns = 0
  /\ att = 0
  /\ problem = None
  /\ solution_outline = None
  /\ sanity_check = None
  /\ last = NoCall
  /\ err = None
  /\ calls = 0
  /\ asked = 0
  /\ TextIdle
  /\ LimiterIdle
  /\ LlmIdle

PickNext ==
  \/ GenerateBatch /\ Uncounted
  \/ PickType /\ Uncounted

PickSpec == PickInit /\ [][PickNext]_vars

\* the while loop of pick_types_for_batch runs on
FairPickSpec == PickSpec /\ WF_vars(PickNext)

(***************************************************************************)
(* _fallback_fractions_sp_1_5 on its own: called once with the scenario    *)
(* label of a request and the generator in any of the states               *)
(* 0..MaxRngState.                                                         *)
(***************************************************************************)
MaxRngState == 1023

FallbackInit ==
  /\ mode = "free"
  /\ req \in {FractionsRequest, CombinatoricsRequest}
  /\ n = 1
  /\ pc = "fallback"
  /\ rng \in 0..MaxRngState
  /\ types = << >>
  /\ idx = 0
  /\ candidates = << >>
  /\ selected = << >>
  /\ seed_tag = 0
  /\ js = None
  /\ genRuns = 0
  /\ verRuns = 0
  /\ att = 0
  /\ problem = None
  /\ solution_outline = None
  /\ sanity_check = None
  /\ last = NoCall
  /\ err = None
  /\ calls = 0
  /\ asked = 0
  /\ TextIdle
  /\ LimiterIdle
  /\ LlmIdle

\* the call and its return: js is the dict returned, rng the generator
\* after the draws
FallbackCall ==
  /\ pc = "fallback"
  /\ LET g == _fallback_fractions_sp_1_5(polish_scenario_label(req.scenario), rng)
     IN  /\ js' = g.bundle
         /\ rng' = g.rng
  /\ pc' = "fallback_done"
  /\ UNCHANGED << calls, asked, textVars, limiterVars, llmVars, mode, req, n, types,
                  idx, candidates, selected, seed_tag, genRuns, verRuns, att,
                  problem, solution_outline, sanity_check, last, err >>

FallbackNext == FallbackCall

FallbackSpec == FallbackInit /\ [][FallbackNext]_vars

(***************************************************************************)
(* The text functions on their own: _sanitize, _extract_tag and the three  *)
(* validators, each called once on a text.  The texts are every            *)
(* concatenation of at most MaxPieces pieces, each of them wrapped in the  *)
(* tag of every field, and samples of the shapes the functions tell apart. *)
(***************************************************************************)
MaxPieces == 3

\* the rest of the state while a function is called on its own
GeneratorIdle ==
  /\ mode = "free"
  /\ req = FractionsRequest
  /\ n = 0
  /\ rng = 0
  /\ types = << >>
  /\ idx = 0
  /\ candidates = << >>
  /\ selected = << >>
  /\ seed_tag = 0
  /\ js = None
  /\ genRuns = 0
  /\ verRuns = 0
  /\ att = 0
  /\ problem = None
  /\ solution_outline = None
  /\ sanity_check = None
  /\ last = NoCall
  /\ err = None
  /\ calls = 0
  /\ asked = 0

generatorVars ==
  << calls, asked, mode, req, n, rng, types, idx, candidates, selected, seed_tag,
     js, genRuns, verRuns, att, problem, solution_outline, sanity_check,
     last, err >>

Pieces ==
  << << "&", "a", "m", "p", ";" >>,
     << "l", "t", ";" >>,
     Fence,
     << "\n" >>,
     << "x", " " >>,
     << "<" >> >>

\* the concatenations of at most len pieces
RECURSIVE PieceTexts(_)
PieceTexts(len) ==
  IF len = 0 THEN {<< >>}
  ELSE LET shorter == PieceTexts(len - 1)
       IN  shorter \cup {t \o Pieces[k] : t \in shorter, k \in 1..Len(Pieces)}

Contents == PieceTexts(MaxPieces)

\* texts with fences next to and inside one another, and with entities
SanitizeSamples ==
  { << "U0060", "U0060", "U0060", "p", "y", "\n", "x", " ", "=", " ", "1",
          "\n", "U0060", "U0060", "U0060" >>,
    << "U0060", "U0060", "U0060", "a", "U0060", "U0060", "U0060", "U0060",
          "U0060", "U0060", "b", "U0060", "U0060", "U0060" >>,
    << "U0060", "U0060", "U0060", "\n", "U0060", "U0060", "U0060", "x",
          "U0060", "U0060", "U0060", "\n", "U0060", "U0060", "U0060" >>,
    << "&", "a", "m", "p", ";", "a", "m", "p", ";", " ", "&", "#", "3",
          "8", ";", "l", "t", ";", " ", "&", "q", "u", "o", "t", ";", "x",
          "&", "q", "u", "o", "t", ";", "&", "n", "b", "s", "p", ";" >> }

Fields == {"problem", "solution_outline", "sanity_check"}

WrappedTexts == {Tagged(f, c) : f \in Fields, c \in Contents}

\* replies without tags in which a cue opens the outline, body follows, and
\* stop (a section heading on a line of its own, or a tag) opens the rest
HeadedCases ==
  { [cue |-> << "S", "z", "k", "i", "c", ":", " " >>,
     body |-> << "p", "o", "l", "i", "c", "z", " ", "p", "a", "r", "y" >>,
     stop |-> << "\n", "S", "a", "n", "i", "t", "y", ":", " " >>,
     rest |-> << "w", "y", "n", "i", "k", " ", "j", "e", "s", "t", " ",
                    "l", "i", "c", "z", "b", "U0105" >>],
    [cue |-> << "S", "z", "k", "i", "c", " ", "r", "o", "z", "w", "i",
                   "U0105", "z", "a", "n", "i", "a", " ", ":", " " >>,
     body |-> << "d", "o", "d", "a", "j", " ", "w", "y", "n", "i", "k",
                    "i", " ", "w", " ", "k", "l", "a", "s", "a", "c", "h" >>,
     stop |-> << "\n", " ", " ", "W", "e", "r", "y", "f", "i", "k", "a",
                    "c", "j", "a", ":", " " >>,
     rest |-> << "w", "y", "n", "i", "k", " ", "n", "i", "e", " ", "p",
                    "r", "z", "e", "k", "r", "a", "c", "z", "a", " ", "6",
                    "6" >>],
    [cue |-> << "O", "u", "t", "l", "i", "n", "e", ":", " " >>,
     body |-> << "c", "o", "u", "n", "t", " ", "t", "h", "e", " ", "p",
                    "a", "i", "r", "s" >>,
     stop |-> << "\n", "<", "s", "a", "n", "i", "t", "y", "_", "c", "h",
                    "e", "c", "k", ">" >>,
     rest |-> << "t", "h", "e", " ", "r", "e", "s", "u", "l", "t", " ",
                    "i", "s", " ", "a", "n", " ", "i", "n", "t", "e", "g",
                    "e", "r", "<", "/", "s", "a", "n", "i", "t", "y", "_",
                    "c", "h", "e", "c", "k", ">" >>],
    [cue |-> << "S", "k", "e", "t", "c", "h", ":" >>,
     body |-> << >>,
     stop |-> << " ", "S", "p", "r", "a", "w", "d", "z", "e", "n", "i",
                    "e", ":", " " >>,
     rest |-> << "w", "y", "n", "i", "k", " ", "j", "e", "s", "t", " ",
                    "l", "i", "c", "z", "b", "U0105" >>] }

HeadedText(h) == h.cue \o h.body \o h.stop \o h.rest

HeadedTexts == {HeadedText(h) : h \in HeadedCases}

\* the prefix of a text of the given length
Prefix(t, len) == SubSeq(t, 1, len)

BareBooleans ==
  { << "t", "r", "u", "e" >>,
    << "f", "a", "l", "s", "e" >>,
    << "T", "r", "u", "e" >>,
    << " ", "F", "A", "L", "S", "E", "\n" >> }

\* texts around the three length thresholds, bare booleans, and valid
\* texts to which a sample-echo phrase is added
ValidatorSamples ==
  {P_ok, Prefix(P_ok, 119), Prefix(P_ok, 120), Prefix(P_ok, 121),
   O_ok, Prefix(O_ok, 59), Prefix(O_ok, 60),
   S_ok, Prefix(S_ok, 39), Prefix(S_ok, 40), Prefix(S_ok, 24)}
    \cup BareBooleans
    \cup {P_ok \o <<" ">> \o _SAMPLE_ECHO_PATTERNS[k] :
            k \in 1..Len(_SAMPLE_ECHO_PATTERNS)}
    \cup {_SAMPLE_ECHO_PATTERNS[k] \o <<" ">> \o P_ok :
            k \in 1..Len(_SAMPLE_ECHO_PATTERNS)}

TextInputs ==
  Contents \cup SanitizeSamples \cup WrappedTexts \cup HeadedTexts
    \cup ValidatorSamples

TextScenarios == {"sport", "family"}

TextInit ==
  /\ pc = "text"
  /\ input \in TextInputs
  /\ output = << >>
  /\ GeneratorIdle
  /\ LimiterIdle
  /\ LlmIdle

\* _sanitize(input)
Sanitize ==
  /\ pc = "text"
  /\ output' = [value |-> _sanitize(input)]
  /\ pc' = "sanitized"
  /\ UNCHANGED << input, generatorVars, limiterVars, llmVars >>

\* _sanitize called on what _sanitize returned
SanitizeAgain ==
  /\ pc = "sanitized"
  /\ input' = output.value
  /\ output' = [value |-> _sanitize(output.value)]
  /\ pc' = "resanitized"
  /\ UNCHANGED << generatorVars, limiterVars, llmVars >>

\* _extract_tag(input, tag)
ExtractTag ==
  /\ pc = "text"
  /\ \E tag \in Fields :
       output' = [tag |-> tag, value |-> _extract_tag(input, tag)]
  /\ pc' = "extracted"
  /\ UNCHANGED << input, generatorVars, limiterVars, llmVars >>

\* the three validators on input, the problem for a scenario of a request
Validate ==
  /\ pc = "text"
  /\ \E scenario \in TextScenarios :
       output' =
         [scenario |-> scenario,
          problem |-> _validate_problem(input, req.branch,
                                        polish_scenario_label(scenario)),
          outline |-> _validate_outline(input),
          sanity |-> _validate_sanity(input)]
  /\ pc' = "validated"
  /\ UNCHANGED << input, generatorVars, limiterVars, llmVars >>

TextNext == Sanitize \/ SanitizeAgain \/ ExtractTag \/ Validate

TextSpec == TextInit /\ [][TextNext]_vars

(***************************************************************************)
(* The rate limiter on its own: at most MaxCalls calls of allow, each for   *)
(* one of two keys and at a clock reading that is the last one plus a step *)
(* of ClockSteps.  The clock counts seconds and starts shortly before      *)
(* midnight UTC.                                                           *)
(***************************************************************************)
MaxCalls == 6

StartClock == 86400 - 150

ClockSteps == {0, 30, 60, 61}

LimiterInit ==
  /\ pc = "limiter"
  /\ now = StartClock
  /\ _minute = << >>
  /\ _daily = << >>
  /\ answers = << >>
  /\ threads = << >>
  /\ TextIdle
  /\ LlmIdle
  /\ GeneratorIdle

\* a request arrives: enforce_rate_limit calls allow for the client's key
Allow ==
  /\ pc = "limiter"
  /\ Len(answers) < MaxCalls
  /\ \E key \in Keys, step \in ClockSteps : allow(key, now + step)
  /\ UNCHANGED << pc, textVars, llmVars, generatorVars >>

LimiterNext == Allow

LimiterSpec == LimiterInit /\ [][LimiterNext]_vars

(***************************************************************************)
(* The limiter called from the worker threads of the sync endpoints: each  *)
(* thread runs allow for the same client, and since allow takes no lock,   *)
(* another thread may run between the checks of a call (lines 23-49) and   *)
(* its record of the usage (lines 52-54).  dq and rec are the objects the  *)
(* limiter holds, so every thread reads and writes the same ones.          *)
(***************************************************************************)
Threads == {1, 2}

\* a worker thread outside allow
Outside == [at |-> "outside", now |-> 0]

\* a worker thread past the checks of allow that read the clock as t
Checked(t) == [at |-> "record", now |-> t]

ConcurrentInit ==
  /\ pc = "limiter_threads"
  /\ now = StartClock
  /\ _minute = << >>
  /\ _daily = << >>
  /\ answers = << >>
  /\ threads = [th \in Threads |-> Outside]
  /\ TextIdle
  /\ LlmIdle
  /\ GeneratorIdle

\* allow(key) from `now = time.time()` to the daily check: the thread
\* returns a refusal or goes on to record the usage
AllowCheck(th) ==
  /\ pc = "limiter_threads"
  /\ threads[th] = Outside
  /\ Len(answers) + Cardinality({o \in Threads : threads[o] # Outside})
       < MaxCalls
  /\ \E step \in ClockSteps :
       LET t == now + step
           dq == Pruned(Lookup(_minute, ClientIp, << >>), t - 60)
           rec == Refreshed(Lookup(_daily, ClientIp, FreshRecord), UtcDay(t))
       IN  /\ now' = t
           /\ _minute' = Store(_minute, ClientIp, dq)
           /\ IF Len(dq) >= max_per_minute
                THEN /\ _daily' = _daily
                     /\ threads' = threads
                     /\ answers' = Append(answers,
                                     Answer(ClientIp, t, FALSE,
                                            Some(Max({1, dq[1] + 60 - t}))))
              ELSE IF rec.count >= max_per_day
                THEN /\ _daily' = Store(_daily, ClientIp, rec)
                     /\ threads' = threads
                     /\ answers' = Append(answers,
                                     Answer(ClientIp, t, FALSE, Some(3600)))
              ELSE /\ _daily' = Store(_daily, ClientIp, rec)
                   /\ threads' = [threads EXCEPT ![th] = Checked(t)]
                   /\ answers' = answers
  /\ UNCHANGED << pc, textVars, llmVars, generatorVars >>

\* dq.append(now); rec["count"] += 1; return True, None, None
AllowRecord(th) ==
  /\ pc = "limiter_threads"
  /\ threads[th] # Outside
  /\ _minute' = Store(_minute, ClientIp,
                      Append(Lookup(_minute, ClientIp, << >>), threads[th].now))
  /\ _daily' = Store(_daily, ClientIp,
                     [Lookup(_daily, ClientIp, FreshRecord)
                        EXCEPT !.count = @ + 1])
  /\ answers' = Append(answers, Answer(ClientIp, threads[th].now, TRUE, None))
  /\ threads' = [threads EXCEPT ![th] = Outside]
  /\ UNCHANGED << now, pc, textVars, llmVars, generatorVars >>

ConcurrentNext ==
  \/ \E th \in Threads : AllowCheck(th)
  \/ \E th \in Threads : AllowRecord(th)

ConcurrentSpec == ConcurrentInit /\ [][ConcurrentNext]_vars

(***************************************************************************)
(* The client of the model on its own: one call of chat, in which every    *)
(* attempt of chat_completion returns a response or raises, and so does    *)
(* the text_generation the client falls back to.  The pauses between the   *)
(* attempts change no state and are left out.                              *)
(***************************************************************************)
\* for attempt in range(4)
Attempts == 4

\* status in (429, 500, 502, 503, 504)
TransientStatuses == {429, 500, 502, 503, 504}

\* an HfHubHTTPError with getattr(e.response, "status_code", None) = status
HttpError(status) == [type |-> "HfHubHTTPError", status |-> status]

\* an exception that is no HfHubHTTPError
OtherError(type) == [type |-> type, status |-> None]

\* what the service and the library can raise: the statuses the client
\* names, two it does not, a response without a status, a connection that
\* fails, an argument the library rejects, and the AttributeError of a
\* library without chat_completion
Failures ==
  {HttpError(Some(c)) : c \in TransientStatuses \cup {400, 404}}
    \cup {HttpError(None), OtherError("ConnectionError"),
          OtherError("TypeError"), OtherError("AttributeError")}

\* the continue branches of the handlers: every failure that is neither an
\* AttributeError nor an HfHubHTTPError, and an HfHubHTTPError with a
\* status of the tuple
RetriedAlways(e) == e.type # "AttributeError"

Retried(e) ==
  /\ e.type # "AttributeError"
  /\ e.type = "HfHubHTTPError" =>
       e.status # None /\ e.status[1] \in TransientStatuses

\* content as the service sends it: a string or a list of chunks
Str(value) == [kind |-> "str", value |-> value]

Chunks(value) == [kind |-> "list", value |-> value]

Responses ==
  { [style |-> "object", content |-> Str(<<"O", "k">>)],
    [style |-> "dict",
     content |-> Chunks(<< [kind |-> "str", value |-> <<"O">>],
                           [kind |-> "dict", value |-> Some(<<"k">>)],
                           [kind |-> "dict", value |-> None],
                           [kind |-> "int", value |-> <<"7">>] >>)],
    [style |-> "None", content |-> Str(<< >>)] }

\* _flatten_content: a string as it is, the chunks joined; of a dict its
\* "text" or "", of anything else its str()
RECURSIVE _flatten_chunks(_)
_flatten_chunks(parts) ==
  IF parts = << >> THEN << >>
  ELSE (IF parts[1].kind = "dict"
          THEN (IF parts[1].value = None THEN << >> ELSE parts[1].value[1])
          ELSE parts[1].value) \o _flatten_chunks(Tail(parts))

_flatten_content(content) ==
  IF content.kind = "str" THEN content.value
  ELSE _flatten_chunks(content.value)

\* _extract_content: the content of choices[0].message of an object or of
\* a dict, and str(resp) of anything else
_extract_content(response) ==
  IF response.style \in {"object", "dict"}
    THEN _flatten_content(response.content)
    ELSE <<"N", "o", "n", "e">>

Returned(value) == [returned |-> TRUE, value |-> value]

Raised(e) == [returned |-> FALSE, value |-> e]

LlmInit ==
  /\ pc = "chat"
  /\ LlmIdle
  /\ TextIdle
  /\ LimiterIdle
  /\ GeneratorIdle

\* chat up to the call of _chat_completion_safe, and that up to the loop
Chat ==
  /\ pc = "chat"
  /\ pc' = "chat_completion"
  /\ attempt' = 0
  /\ last_err' = None
  /\ UNCHANGED << tried, resp, textVars, limiterVars, generatorVars >>

\* one turn of the loop: chat_completion returns and chat returns the
\* content, or it raises and the handler of the exception returns from the
\* fallback, raises, or goes on to the next turn; after the last turn
\* `if last_err: raise last_err`
ChatCompletion ==
  /\ pc = "chat_completion"
  /\ attempt < Attempts
  /\ \/ \E response \in Responses :
          /\ tried' = Append(tried, Returned(response))
          /\ resp' = Some(Returned(_extract_content(response)))
          /\ pc' = "returned"
          /\ UNCHANGED << attempt, last_err >>
     \/ \E e \in Failures :
          /\ tried' = Append(tried, Raised(e))
          /\ IF e.type = "AttributeError"
               THEN /\ pc' = "text_generation"
                    /\ UNCHANGED << attempt, last_err, resp >>
             ELSE IF ~Retried(e)
               THEN /\ pc' = "raised"
                    /\ resp' = Some(Raised(e))
                    /\ UNCHANGED << attempt, last_err >>
             ELSE /\ last_err' = Some(e)
                  /\ attempt' = attempt + 1
                  /\ IF attempt + 1 < Attempts
                       THEN pc' = "chat_completion" /\ resp' = resp
                       ELSE pc' = "raised" /\ resp' = Some(Raised(e))
  /\ UNCHANGED << textVars, limiterVars, generatorVars >>

\* _text_generation_fallback: the text of text_generation as the content of
\* a dict, or what text_generation raises
TextGeneration ==
  /\ pc = "text_generation"
  /\ \/ /\ resp' = Some(Returned(_extract_content(
                      [style |-> "dict", content |-> Str(<<"O", "k">>)])))
        /\ pc' = "returned"
     \/ \E e \in Failures :
          /\ resp' = Some(Raised(e))
          /\ pc' = "raised"
  /\ UNCHANGED << attempt, last_err, tried, textVars, limiterVars,
                  generatorVars >>

LlmNext ==
  \/ Chat
  \/ ChatCompletion
  \/ TextGeneration

LlmSpec == LlmInit /\ [][LlmNext]_vars

(***************************************************************************)
(* Properties.                                                             *)
(***************************************************************************)
\* the pairs for which _deterministic_fallback returns a bundle
HasFallback(r) ==
  _deterministic_fallback(r.branch, r.school_level,
                          polish_scenario_label(r.scenario), 0) # None

FromFallback(p, o, s) ==
  /\ p.kind = "fallback" /\ p.field = "problem"
  /\ o.kind = "fallback" /\ o.field = "solution_outline"
  /\ s.kind = "fallback" /\ s.field = "sanity_check"

\* the three validators of the code on three texts of replies
PassesValidators(p, o, s) ==
  /\ p.kind = "lit" /\ o.kind = "lit" /\ s.kind = "lit"
  /\ ProblemComputed[<<p.name, req.scenario>>]
  /\ OutlineComputed[o.name]
  /\ SanityComputed[s.name]
  /\ TextPool[p.name] # << >> /\ TextPool[o.name] # << >> /\ TextPool[s.name] # << >>

Gated(p, o, s) == FromFallback(p, o, s) \/ PassesValidators(p, o, s)

\* C1: every bundle _generate_problem_bundle has returned (js), and the
\* problem, outline and sanity text of every candidate and of every item
\* generate_batch returns, passes the three validators or is the output of
\* the fallback generator - also after a revision cycle.
C1_HardGate ==
  /\ js # None => Gated(js["problem"], js["solution_outline"], js["sanity_check"])
  /\ \A k \in 1..Len(candidates) :
       Gated(candidates[k].ch.problem, candidates[k].ch.solution_outline,
             candidates[k].ch.verification.sanity)
  /\ \A k \in 1..Len(selected) :
       Gated(selected[k].problem, selected[k].solution_outline,
             selected[k].verification.sanity)

\* a batch that returned an item of the fallback although texts of the
\* model failed validation before it, among candidates made of reply texts
C1_Witness ==
  /\ pc = "done"
  /\ selected[1].problem.kind = "fallback"
  /\ \E k \in 1..Len(candidates) : candidates[k].ch.problem.kind = "lit"

\* C2: whenever generate_batch returns, it returns exactly n items, whose
\* ids are 1, 2, ..., n in list order.
C2_ExactlyN ==
  pc = "done" =>
    /\ Len(selected) = n
    /\ \A k \in 1..n : selected[k].id = k

\* a returned batch of the default size, made of candidates that the sort
\* has moved
C2_Witness ==
  /\ pc = "done"
  /\ n = DefaultN
  /\ Len(selected) = DefaultN
  /\ \E k \in 1..(Len(candidates) - 1) : candidates[k].score > candidates[k + 1].score

\* C3: with the junk collaborator and the request (Fractions, grades 1-5,
\* engineering, seed 42, n = 5), generate_batch ends by returning 5 items,
\* all of the fallback generator, and does not raise.
C3_JunkYieldsFallback ==
  (mode = "junk" /\ pc \in {"done", "raised"}) =>
    /\ pc = "done"
    /\ Len(selected) = 5
    /\ \A k \in 1..Len(selected) :
         FromFallback(selected[k].problem, selected[k].solution_outline,
                      selected[k].verification.sanity)

\* C4: for (Fractions, grades 1-5) the missing-field error of a per-field
\* request that exhausted its repair attempts never leaves generate_batch.
C4_MissingFieldRecovered ==
  ~ /\ pc = "raised"
    /\ HasFallback(req)
    /\ err[1].type = "ValueError"
    /\ err[1].site \in {"ask_problem", "ask_outline", "ask_sanity"}

\* C5: an exception of the collaborator at a call site inside item
\* generation never aborts the item and the batch.
C5_CollaboratorErrorContained ==
  ~ /\ pc = "raised"
    /\ err[1].type = "ChatError"

\* the step taken reaches the hard gate: the per-field tier settles the
\* sanity check, by a valid answer or by the corrective call
GateReached ==
  /\ pc \in {"ask_sanity", "fix_sanity"}
  /\ last'.site = pc
  /\ \/ last'.result = "fix"
     \/ last'.result = "return" /\ pc' # "fix_sanity"

\* the three fields the hard gate sees in that step pass the validators
GateInputsValid ==
  PassesValidators(problem, solution_outline, last'.out[1])

\* C6 as claimed: for a pair without a deterministic fallback no bundle of
\* a fallback is ever returned for an item (its generation ends in an
\* error instead).
C6_NoContentWithoutFallback ==
  (~HasFallback(req) /\ js # None) => js["problem"].kind # "fallback"

\* the condition of C6 on a step
C6_GenericFallback_Step ==
  (GateReached /\ ~HasFallback(req) /\ ~GateInputsValid) =>
    LET g == _fallback_fractions_sp_1_5(polish_scenario_label(req.scenario), rng)
    IN  /\ js' = g.bundle
        /\ rng' = g.rng
        /\ pc' = "verify"
        /\ err' = None

\* C6, amended: for a pair without a deterministic fallback, when the hard
\* gate sees a bundle that fails validation it returns the bundle of
\* _fallback_fractions_sp_1_5 for the request's scenario label, and the
\* item goes on to verification; no error is raised.
C6_GenericFallback == [][C6_GenericFallback_Step]_vars

\* an item of a pair without a deterministic fallback going to
\* verification with the bundle of the generic fallback
C6_Witness ==
  /\ ~HasFallback(req)
  /\ pc = "verify"
  /\ last.site \in {"ask_sanity", "fix_sanity"}
  /\ FromFallback(js["problem"], js["solution_outline"], js["sanity_check"])

\* the tag a position of _ask_for_tag asks for
TagOfSite(site) ==
  CASE site = "ask_problem" -> "problem"
    [] site = "ask_outline" -> "solution_outline"
    [] site = "ask_sanity" -> "sanity_check"

\* the reply of a call yields a non-empty extraction of the tag
Yields(reply, tag) ==
  /\ reply # "raise"
  /\ ExtractComputed[<<reply, tag>>] # None
  /\ TextPool[ExtractComputed[<<reply, tag>>][1]] # << >>

\* the condition of C7 on a step
C7_AskForTag_Step ==
  pc \in {"ask_problem", "ask_outline", "ask_sanity"} =>
    LET tag == TagOfSite(pc)
        reply == last'.reply
    IN  /\ att <= Retries
        /\ last'.site = pc
        /\ (last'.result = "return") = Yields(reply, tag)
        /\ last'.result = "return" =>
             /\ last'.out = Some(Lit(ExtractComputed[<<reply, tag>>][1]))
             /\ Text(last'.out[1]) # << >>
             /\ pc' # pc
        /\ (last'.result = "retry") =
             (reply # "raise" /\ ~Yields(reply, tag) /\ att < Retries)
        /\ last'.result = "retry" => (pc' = pc /\ att' = att + 1)
        /\ (last'.result = "ValueError") =
             (reply # "raise" /\ ~Yields(reply, tag) /\ att = Retries)
        /\ (last'.result = "ValueError" /\ genRuns = 1) =>
             (pc' = "raised" /\ err' = Some([type |-> "ValueError", site |-> pc]))

\* C7: every step of _ask_for_tag is the initial call or one of at most
\* Retries repair calls; it returns at the first reply that yields a
\* non-empty extraction, and returns that content; a reply that yields none
\* leads to the next repair call, or after the last one to the error; it
\* never returns an empty string or None.
C7_AskForTag == [][C7_AskForTag_Step]_vars

\* _ask_for_tag raising after the initial call and all repair calls
\* yielded nothing
C7_Witness ==
  /\ pc = "raised"
  /\ err = Some([type |-> "ValueError", site |-> "ask_outline"])
  /\ last.result = "ValueError"
  /\ last.reply = "booleans"

\* the tags a position of _ask_for_multi_tags asks for
TagsOfSite(site) == IF site = "multi_tags" THEN TrioTags ELSE VerdictTags

\* the reply of a call holds every tag asked for
Complete(reply, tags) ==
  /\ reply # "raise"
  /\ \A t \in tags : ExtractComputed[<<reply, t>>] # None

\* the condition of C8 on a step
C8_NoPartialBundle_Step ==
  pc \in {"multi_tags", "verify"} =>
    LET tags == TagsOfSite(pc)
        reply == last'.reply
    IN  /\ att <= Retries
        /\ last'.site = pc
        /\ (last'.result = "return") = Complete(reply, tags)
        /\ last'.result = "return" =>
             /\ DOMAIN last'.out[1] = tags
             /\ \A t \in tags :
                  last'.out[1][t] =
                    Lit(StripComputed[ExtractComputed[<<reply, t>>][1]])
        /\ (last'.result = "retry") =
             (reply # "raise" /\ ~Complete(reply, tags) /\ att < Retries)
        /\ last'.result = "retry" => (pc' = pc /\ att' = att + 1)
        /\ (last'.result = "ValueError") =
             (reply # "raise" /\ ~Complete(reply, tags) /\ att = Retries)

\* C8: _ask_for_multi_tags returns a bundle only from a reply that holds
\* every requested tag, and the bundle then has exactly the requested
\* fields, each extracted (and stripped) from that reply; a reply missing a
\* tag is discarded whole; at most 1 + Retries replies are requested, and
\* the error is raised when the last of them is discarded.
C8_NoPartialBundle == [][C8_NoPartialBundle_Step]_vars

\* the fourth reply in a row discarded, one that holds some of the tags
C8_Witness ==
  /\ last.site = "multi_tags"
  /\ last.reply = "partial"
  /\ last.result = "ValueError"
  /\ pc = "ask_problem"

\* the verdict a reply holds fails: one of its three booleans is not "true"
VerdictFails(reply) ==
  \E t \in {"unambiguous", "difficulty_ok", "insight_present"} :
    ~_to_bool(IF ExtractComputed[<<reply, t>>] = None THEN None
              ELSE Some(Lit(ExtractComputed[<<reply, t>>][1])))

\* the revised_problem field of the verdict a reply holds is not blank
RevisedGiven(reply) ==
  /\ ExtractComputed[<<reply, "revised_problem">>] # None
  /\ Strip(TextPool[ExtractComputed[<<reply, "revised_problem">>][1]]) # << >>

\* the step taken is _verify returning the verdict of its run number run
VerdictReturned(run) ==
  /\ pc = "verify"
  /\ verRuns = run
  /\ last'.result = "return"

\* the condition of C9 on a step
C9_OneRevisionCycle_Step ==
  /\ genRuns' <= 2
  /\ verRuns' <= 2
  /\ VerdictReturned(2) =>
       /\ Len(candidates') = Len(candidates) + 1
       /\ SubSeq(candidates', 1, Len(candidates)) = candidates
       /\ pc' \in {"generate_single", "select"}

\* C9: in an item _generate_problem_bundle is run at most twice and _verify
\* at most twice, and the item is finished by the second verdict whatever
\* it says.
C9_OneRevisionCycle == [][C9_OneRevisionCycle_Step]_vars

\* an item finished after a revision cycle whose second verdict failed too
C9_Witness ==
  /\ genRuns = 2
  /\ verRuns = 2
  /\ pc \in {"generate_single", "select"}
  /\ last.site = "verify"
  /\ VerdictFails(last.reply)
  /\ Len(candidates) = idx - 1

\* the condition of C10 on a step
C10_AlwaysRegenerates_Step ==
  (VerdictReturned(1) /\ VerdictFails(last'.reply)) =>
    (pc' = "multi_tags" /\ genRuns' = 2)

\* C10 as claimed: after a failed first verdict the generation procedure
\* is run once more, whatever the revised_problem field holds.
C10_AlwaysRegenerates == [][C10_AlwaysRegenerates_Step]_vars

\* the condition of C10 on a step
C10_RegeneratesOnlyWithRevision_Step ==
  (VerdictReturned(1) /\ VerdictFails(last'.reply)) =>
    /\ js' = js
    /\ Len(candidates') = Len(candidates)
    /\ IF RevisedGiven(last'.reply)
         THEN pc' = "multi_tags" /\ genRuns' = 2 /\ verRuns' = 1
         ELSE pc' = "verify" /\ genRuns' = 1 /\ verRuns' = 2

\* C10, amended: after a failed first verdict a second run of _verify
\* follows; the generation procedure is run once more before it only if
\* the revised_problem field is not blank - if it is empty or whitespace the
\* first bundle is kept and verified again at once.
C10_RegeneratesOnlyWithRevision == [][C10_RegeneratesOnlyWithRevision_Step]_vars

\* the first bundle sent to _verify again after a failed verdict with a
\* blank revised_problem
C10_Witness ==
  /\ pc = "verify"
  /\ verRuns = 2
  /\ genRuns = 1
  /\ last.reply = "verdict_fail_norev"
  /\ last.result = "return"

\* a text that reads "true" once the whitespace around it is dropped and
\* the case of its letters is ignored
ReadsTrue(t) ==
  \E a \in 0..Len(t) :
    /\ a + 4 <= Len(t)
    /\ \A k \in 1..a : IsSpace(t[k])
    /\ \A k \in (a + 5)..Len(t) : IsSpace(t[k])
    /\ t[a + 1] \in {"t", "T"}
    /\ t[a + 2] \in {"r", "R"}
    /\ t[a + 3] \in {"u", "U"}
    /\ t[a + 4] \in {"e", "E"}

\* the three booleans of the verdict a reply holds all read "true"
AllTrue(reply) ==
  \A t \in {"unambiguous", "difficulty_ok", "insight_present"} :
    /\ ExtractComputed[<<reply, t>>] # None
    /\ ReadsTrue(TextPool[ExtractComputed[<<reply, t>>][1]])

\* the decimal numeral of an integer
Numeral(v) == IF v < 0 THEN <<"-">> \o IntToText(0 - v) ELSE IntToText(v)

\* the score a text stands for: the integer whose numeral it is, whitespace
\* around it dropped, brought into 0..10, and 0 for any other text
ScoreOfText(t) ==
  LET vals == {v \in -99..99 : Strip(t) = Numeral(v)}
  IN  IF vals = {} THEN 0
      ELSE LET v == CHOOSE w \in vals : TRUE
           IN  IF v < 0 THEN 0 ELSE IF v > 10 THEN 10 ELSE v

\* the score of the verdict a reply holds
ScoreOfReply(reply) ==
  IF ExtractComputed[<<reply, "difficulty_score">>] = None THEN 0
  ELSE ScoreOfText(TextPool[ExtractComputed[<<reply, "difficulty_score">>][1]])

\* the condition of C11 on a step
C11_PassingVerdictEndsItem_Step ==
  (VerdictReturned(1) /\ AllTrue(last'.reply)) =>
    /\ candidates' = Append(candidates,
                            [ ch |-> MakeChallenge(idx, js, TRUE),
                              score |-> ScoreOfReply(last'.reply) ])
    /\ js' = js
    /\ genRuns' = genRuns
    /\ verRuns' = verRuns
    /\ pc' \in {"generate_single", "select"}

\* C11: when the three booleans of the first verdict of an item all read
\* "true" (case ignored, whitespace trimmed), the item is finished with the
\* bundle it has and the score of that verdict: no regeneration and no second
\* verification follow.
C11_PassingVerdictEndsItem == [][C11_PassingVerdictEndsItem_Step]_vars

\* an item finished by a first verdict whose booleans are "true", " True "
\* and "TRUE"
C11_Witness ==
  /\ pc \in {"generate_single", "select"}
  /\ last.site = "verify"
  /\ last.result = "return"
  /\ last.reply = "verdict_pass"
  /\ AllTrue(last.reply)
  /\ genRuns = 1
  /\ verRuns = 1
  /\ Len(candidates) = idx - 1
  /\ candidates[idx - 1].score = 7

\* a candidate without the number of its item
Unnumbered(c) == [c EXCEPT !.ch.id = 0]

\* how often a candidate occurs in a list, numbers of items left aside
Occurrences(list, c) ==
  Cardinality({k \in 1..Len(list) : Unnumbered(list[k]) = Unnumbered(c)})

\* the condition of C12 on a step
C12_KeepsHighestScores_Step ==
  (pc = "select" /\ pc' = "done") =>
    /\ Len(candidates') = Len(candidates)
    /\ \A k \in 1..Len(candidates) :
         Occurrences(candidates', candidates[k]) = Occurrences(candidates, candidates[k])
    /\ Len(selected') = n
    /\ \A k \in 1..n : selected'[k] = candidates'[k].ch
    /\ \A a \in 1..n : \A b \in (n + 1)..Len(candidates') :
         candidates'[a].score >= candidates'[b].score
    /\ \A a \in 1..n : \A b \in 1..n :
         (a < b) => (candidates'[a].score >= candidates'[b].score)

\* C12: the selection at the end of generate_batch keeps n of the candidates
\* built, those of the highest scores: every kept item's score is at least
\* every discarded item's score, and the returned list is in non-increasing
\* order of score.
C12_KeepsHighestScores == [][C12_KeepsHighestScores_Step]_vars

\* a finished batch whose candidates had three different scores, the item of
\* the highest one returned although it was built last
C12_Witness ==
  /\ pc = "done"
  /\ n < Len(candidates)
  /\ candidates[1].score > candidates[2].score
  /\ candidates[2].score > candidates[3].score
  /\ {candidates[2].ch.id, candidates[3].ch.id} = {1, 2}
  /\ selected[1] = candidates[1].ch

\* the generator after k draws
RECURSIVE RngSkip(_, _)
RngSkip(r, k) == IF k = 0 THEN r ELSE RngSkip(RngStep(r), k - 1)

\* the generator after the draws that fill a list of want types from a pool
\* of the given size, each type taken at most twice
RECURSIVE RngAfterPick(_, _, _, _)
RngAfterPick(r, chosen, size, want) ==
  IF Len(chosen) >= want THEN r
  ELSE LET t == RandBelow(r, size) + 1
       IN  RngAfterPick(RngStep(r),
                        IF Cardinality({k \in 1..Len(chosen) : chosen[k] = t}) < 2
                          THEN Append(chosen, t) ELSE chosen,
                        size, want)

\* the generator at the shuffle of a seeded run whose draws are those of
\* generate_batch and generate_single alone: the seeding, the draws of the
\* types and one draw of a seed_tag for each candidate slot
SeededShuffleRng ==
  RngSkip(RngAfterPick(RngSeed(req.seed[1]), << >>,
                       Len(BRANCH_TO_TYPES[req.branch]), Len(types)),
          Len(types))

\* the slots of the candidates with their scores, in the order in which a
\* seeded run without other draws selects them
SeededOrder ==
  StableSort(RngShuffle([k \in 1..Len(candidates) |->
                           [slot |-> k, score |-> candidates[k].score]],
                        SeededShuffleRng).list,
             HigherScore)

\* the condition of C13 on a step
C13_SeededSelection_Step ==
  (pc = "select" /\ pc' = "done" /\ req.seed # None) =>
    \A k \in 1..n :
      Unnumbered(candidates'[k]) = Unnumbered(candidates[SeededOrder[k].slot])

\* C13: two runs of generate_batch with the same seed in which every
\* candidate slot receives the same score select the same candidate slots in
\* the same order; ties of score are decided by the seeded shuffle alone.
\* Stated on one run against the seeded run with these scores in which no
\* slot is filled by the fallback: the slots selected are those that run
\* selects, in its order.
C13_SeededSelection == [][C13_SeededSelection_Step]_vars

\* the positions of a list of types that hold the type t
PositionsOf(list, t) == {k \in 1..Len(list) : list[k] = t}

\* the items of a list of challenges whose challenge_type reads as that of
\* the item at position a
SameLabel(list, a) ==
  {b \in 1..Len(list) :
     Text(list[b].challenge_type) = Text(list[a].challenge_type)}

\* C14: in the list pick_types_for_batch builds no challenge-type label
\* occurs more than twice, so the complete pool of size p holds at least
\* ceil(p/2) distinct types, and at most 2 of the n returned items share a
\* challenge-type label.
C14_TypeCap ==
  /\ \A t \in 1..Len(BRANCH_TO_TYPES[req.branch]) :
       Cardinality(PositionsOf(types, t)) <= 2
  /\ (pc \notin {"generate_batch", "pick_types"}) =>
       2 * Cardinality({types[k] : k \in 1..Len(types)}) >= Len(types)
  /\ (pc = "done") =>
       \A a \in 1..Len(selected) : Cardinality(SameLabel(selected, a)) <= 2

\* the pool of a seeded batch is complete, pick_types_for_batch having
\* rejected at least one draw of a type already chosen twice
C14_Witness ==
  /\ pc = "generate_single"
  /\ idx = 1
  /\ req.seed # None
  /\ Len(types) > 0
  /\ rng # RngSkip(RngSeed(req.seed[1]), Len(types))
  /\ \E t \in 1..Len(BRANCH_TO_TYPES[req.branch]) :
       Cardinality(PositionsOf(types, t)) = 2

\* `scenario_pl.lower() in s.lower()` on a text of an item
NamesScenario(h) ==
  Contains(Lower(Text(h)), Lower(polish_scenario_label(req.scenario)))

\* C15: the problem text of every item generate_batch returns contains the
\* Polish label of the requested scenario, letter case ignored, whether
\* the text is a reply of the model or the output of the fallback.
C15_ScenarioInProblem ==
  \A k \in 1..Len(selected) : NamesScenario(selected[k].problem)

\* a returned item made of a reply that spells the label with other letter
\* case, chosen among candidates one of which came from the fallback
C15_Witness ==
  /\ pc = "done"
  /\ selected[1].problem.kind = "lit"
  /\ ~Contains(Text(selected[1].problem), polish_scenario_label(req.scenario))
  /\ NamesScenario(selected[1].problem)
  /\ \E k \in 2..Len(candidates) : candidates[k].ch.problem.kind = "fallback"

\* the condition of C16 on a step: the score stored with an item is the one
\* its last verdict stands for
C16_ScoreClamped_Step ==
  (pc = "verify" /\ last'.result = "return"
     /\ Len(candidates') = Len(candidates) + 1) =>
    candidates'[Len(candidates')].score = ScoreOfReply(last'.reply)

\* C16: the score used for ranking is always an integer of 0..10: a reported
\* value below 0 counts as 0, one above 10 as 10, and a non-numeric or empty
\* value as 0.
C16_ScoreClamped ==
  /\ [](/\ \A k \in 1..Len(candidates) : candidates[k].score \in 0..10
        /\ _to_int(None) = 0
        /\ _to_int(Some(Lit(""))) = 0)
  /\ [][C16_ScoreClamped_Step]_vars

\* an item ranked with 0 for the reported score "-3", after one ranked with
\* 10 for " 15 "
C16_Witness ==
  /\ pc \in {"generate_single", "select"}
  /\ last.site = "verify"
  /\ last.result = "return"
  /\ last.reply = "verdict_fail"
  /\ Len(candidates) = idx - 1
  /\ idx > 2
  /\ candidates[idx - 1].score = 0
  /\ candidates[idx - 2].score = 10

\* the batch sizes for which the size of the pool is compared
MaxBatch == 40

\* round(1.6 * k), a tie going to the even neighbour
RoundedSixteenTenths(k) ==
  LET q == (16 * k) \div 10
      rest == (16 * k) % 10
  IN  IF rest > 5 THEN q + 1
      ELSE IF rest < 5 THEN q
      ELSE IF q % 2 = 0 THEN q ELSE q + 1

\* max(k + 2, min(k + 5, round(1.6 k)))
ExpectedPool(k) ==
  LET r == RoundedSixteenTenths(k)
      m == IF r < k + 5 THEN r ELSE k + 5
  IN  IF m > k + 2 THEN m ELSE k + 2

\* C17: for every batch size n >= 1 the number of candidates generated is
\* max(n+2, min(n+5, round(1.6n))), a number of n+2..n+5, and exactly one
\* item is generated for each sampled type label.
C17_PoolSize ==
  /\ \A k \in 1..MaxBatch :
       pool_size(k) = ExpectedPool(k) /\ pool_size(k) \in (k + 2)..(k + 5)
  /\ Len(types) <= ExpectedPool(n)
  /\ Len(candidates) <= Len(types)
  /\ (pc \in {"select", "done"}) =>
       /\ Len(types) = ExpectedPool(n)
       /\ Len(candidates) = Len(types)
  /\ (pc # "done") =>
       \A k \in 1..Len(candidates) :
         /\ candidates[k].ch.id = k
         /\ candidates[k].ch.challenge_type = TypeLabel(req.branch, types[k])

\* the eight candidates of a batch of five have been generated, one for
\* each entry of a pool that holds a type twice
C17_Witness ==
  /\ pc = "select"
  /\ n = 5
  /\ Len(candidates) = 8
  /\ \E a \in 1..8 : \E b \in 1..8 : a # b /\ types[a] = types[b]
  /\ \A k \in 1..8 :
       candidates[k].ch.challenge_type = TypeLabel(req.branch, types[k])

\* the parameters of a text of the fallback are admissible
ProperParameters(h) ==
  /\ h.A \in 2..5
  /\ h.B \in 3..7
  /\ h.total \in 8..14
  /\ h.C_num \in 2..5
  /\ h.C_den \in {6, 8, 10, 12}
  /\ h.A # h.B
  /\ h.A < h.total
  /\ h.B < h.total
  /\ h.C_num < h.C_den

\* C18: whatever the state of the generator, the fallback returns with
\* A # B, A < total and B < total (A of 2..5, B of 3..7, total of 8..14), so
\* the three fractions A/total, B/total and C_num/C_den of its texts are
\* below 1.
C18_FallbackParameters ==
  \A f \in DOMAIN js : (js[f].kind = "fallback") => ProperParameters(js[f])

\* the fallback has returned after its loop rejected a first draw with A = B
C18_Witness ==
  /\ pc = "fallback_done"
  /\ js # None
  /\ \E r \in 0..MaxRngState :
       /\ RandInt(r, 2, 5) = RandInt(RngStep(r), 3, 7)
       /\ _fallback_fractions_sp_1_5(js["problem"].scenario_pl, r) =
            [bundle |-> js, rng |-> rng]

\* \(\frac{a}{b}\) as the texts of the fallback write a fraction
FractionText(a, b) ==
  <<"\\", "(", "\\", "f", "r", "a", "c", "{">> \o Numeral(a) \o <<"}", "{">>
    \o Numeral(b) \o <<"}", "\\", ")">>

\* "zespół <name>." of part a)
TeamPhrase(name) ==
  <<"z", "e", "s", "p", "U00F3", "U0142", " ">> \o name \o <<".">>

\* "Różnica to <fraction>." of part a)
DifferencePhrase(a, b) ==
  <<"R", "U00F3", "U017C", "n", "i", "c", "a", " ", "t", "o", " ">>
    \o FractionText(a, b) \o <<".">>

\* "z odpowiedzią: <answer>" of part b)
AnswerPhrase(answer) ==
  <<"z", " ", "o", "d", "p", "o", "w", "i", "e", "d", "z", "i", "U0105", ":",
    " ">> \o answer

\* "rosnąco: <x>, <y>, <z>." of part c), each fraction a pair <<num, den>>
OrderPhrase(x, y, z) ==
  <<"r", "o", "s", "n", "U0105", "c", "o", ":", " ">>
    \o FractionText(x[1], x[2]) \o <<",", " ">>
    \o FractionText(y[1], y[2]) \o <<",", " ">>
    \o FractionText(z[1], z[2]) \o <<".">>

\* x <= y as rationals
AtMost(x, y) == x[1] * y[2] <= y[1] * x[2]

\* the outline of the fallback agrees with the parameters it was drawn with
OutlineConsistent(h) ==
  LET o == FieldText(h)
      fr == << <<h.A, h.total>>, <<h.B, h.total>>, <<h.C_num, h.C_den>> >>
      Anna == <<"A", "n", "n", "a">>
      Bartek == <<"B", "a", "r", "t", "e", "k">>
      tak == <<"t", "a", "k", ".">>
      nie == <<"n", "i", "e", " ">>
  IN  /\ Contains(o, TeamPhrase(IF h.A > h.B THEN Anna ELSE Bartek))
      /\ ~Contains(o, TeamPhrase(IF h.A > h.B THEN Bartek ELSE Anna))
      /\ Contains(o, DifferencePhrase(IF h.A > h.B THEN h.A - h.B
                                      ELSE h.B - h.A, h.total))
      /\ Contains(o, AnswerPhrase(tak)) <=> (2 * (h.A + h.B) > h.total)
      /\ Contains(o, AnswerPhrase(nie)) <=> ~(2 * (h.A + h.B) > h.total)
      /\ \E a \in 1..3 : \E b \in 1..3 : \E c \in 1..3 :
           /\ {a, b, c} = {1, 2, 3}
           /\ AtMost(fr[a], fr[b])
           /\ AtMost(fr[b], fr[c])
           /\ Contains(o, OrderPhrase(fr[a], fr[b], fr[c]))

\* C19: the outline of the fallback is consistent with its numbers: the team
\* it names as having used more is the one with the larger numerator, the
\* difference it states is |A - B| / total, its answer to b) is "tak"
\* exactly when 2 (A + B) > total, and the fractions of c) stand in
\* non-decreasing order of their exact values.
C19_OutlineConsistent ==
  (js # None /\ js["solution_outline"].kind = "fallback") =>
    OutlineConsistent(js["solution_outline"])

\* a returned outline that answers b) with "nie" because 2 (A + B) = total,
\* names Anna, and orders three fractions of which the third drawn is not
\* the largest
C19_Witness ==
  /\ pc = "fallback_done"
  /\ js # None
  /\ LET h == js["solution_outline"]
     IN  /\ 2 * (h.A + h.B) = h.total
         /\ h.A > h.B
         /\ h.C_num * h.total < h.A * h.C_den
         /\ Contains(FieldText(h), AnswerPhrase(<<"n", "i", "e", " ">>))

\* the sites at which _ask_for_tag and _ask_for_multi_tags call chat
RequestSites ==
  {"multi_tags", "verify", "ask_problem", "ask_outline", "ask_sanity"}

\* the condition of C20 on a step: a call made after att > 0 failed attempts
\* of the same request is a repair attempt
C20_RepairsCooler_Step ==
  (pc \in RequestSites /\ att > 0 /\ last'.site = pc) =>
    last'.temp < Temperature(pc, 0)

\* C20: every repair attempt of _ask_for_tag and of _ask_for_multi_tags is
\* sent with a temperature strictly lower than that of the initial attempt
\* of the same request.
C20_RepairsCooler == [][C20_RepairsCooler_Step]_vars

\* C26: the batch size asked for by the caller, the query parameter n of
\* GET /generate, is the number of items generated and returned: a request
\* with n = k yields k items for every k >= 1, not only for k = 5.
C26_AskedSizeReturned ==
  (pc = "done" /\ asked # 0) => Len(selected) = asked

\* the step taken is a reply to the multi-field request that holds the
\* three fields
TrioReturned == pc = "multi_tags" /\ last'.site = pc /\ last'.result = "return"

\* the three fields of that reply pass the validators
TrioValid ==
  PassesValidators(last'.out[1]["problem"], last'.out[1]["solution_outline"],
                   last'.out[1]["sanity_check"])

\* the condition of C27 on a step
C27_TierOrder_Step ==
  /\ (TrioReturned /\ TrioValid) =>
       /\ pc' = "verify"
       /\ js' = last'.out[1]
       /\ rng' = rng
  /\ (pc' = "ask_problem" /\ pc # "ask_problem") =>
       /\ pc = "multi_tags"
       /\ last'.site = pc
       /\ \/ last'.result \in {"raise", "ValueError"}
          \/ TrioReturned /\ ~TrioValid
  /\ (TrioReturned /\ ~TrioValid) => pc' = "ask_problem"
  /\ (pc \notin {"generate_batch", "select"} /\ rng' # rng) =>
       \/ pc \in {"pick_types", "generate_single"}
       \/ GateReached /\ ~GateInputsValid
            /\ FromFallback(js'["problem"], js'["solution_outline"],
                            js'["sanity_check"])
  /\ (GateReached /\ GateInputsValid) =>
       /\ js' = [problem |-> problem, solution_outline |-> solution_outline,
                 sanity_check |-> last'.out[1]]
       /\ rng' = rng

\* C27: the strategy tiers are tried in a fixed order, each only on failure
\* of the one before: a multi-field reply whose bundle passes the three
\* validators is returned with no per-field request and no fallback; the
\* per-field requests begin only after the multi-field tier failed (fields
\* missing after the last attempt, failed validation, or an error); the
\* fallback is used only when the per-field bundle failed validation.
C27_TierOrder == [][C27_TierOrder_Step]_vars

\* an item that went through the three tiers: its bundle is the fallback's,
\* returned at the hard gate after the last per-field call
C27_Witness ==
  /\ pc = "verify"
  /\ genRuns = 1
  /\ last.site \in {"ask_sanity", "fix_sanity"}
  /\ js # None
  /\ FromFallback(js["problem"], js["solution_outline"], js["sanity_check"])

\* the field of a per-field site
TagOfFieldSite ==
  [ask_problem |-> "problem", ask_outline |-> "solution_outline",
   ask_sanity |-> "sanity_check", fix_problem |-> "problem",
   fix_outline |-> "solution_outline", fix_sanity |-> "sanity_check"]

\* a text of a reply passes the validator of a field
FieldValid(tag, h) ==
  /\ h.kind = "lit"
  /\ CASE tag = "problem" -> ProblemComputed[<<h.name, req.scenario>>]
       [] tag = "solution_outline" -> OutlineComputed[h.name]
       [] tag = "sanity_check" -> SanityComputed[h.name]

\* the local variable of a field after the step
FieldAfter(tag) ==
  CASE tag = "problem" -> problem'
    [] tag = "solution_outline" -> solution_outline'
    [] tag = "sanity_check" -> sanity_check'

\* the value the corrective call of a field extracted from its reply, if it
\* is non-empty and passes the validator
Correction(reply, tag) ==
  LET v == ExtractComputed[<<reply, tag>>]
  IN  IF v # None /\ TextPool[v[1]] # << >> /\ FieldValid(tag, Lit(v[1]))
        THEN Some(Lit(v[1])) ELSE None

\* the condition of C28 on a step
C28_OneCorrectiveCall_Step ==
  /\ (pc \in {"ask_problem", "ask_outline", "ask_sanity"}
        /\ last'.site = pc /\ last'.result = "return") =>
       LET tag == TagOfFieldSite[pc]
       IN  IF FieldValid(tag, last'.out[1])
             THEN pc' \notin {"fix_problem", "fix_outline", "fix_sanity"}
             ELSE pc' = FixSite[tag] /\ FieldAfter(tag) = last'.out[1]
  /\ (pc' \in {"fix_problem", "fix_outline", "fix_sanity"}) =>
       /\ pc \in {"ask_problem", "ask_outline", "ask_sanity"}
       /\ pc' = FixSite[TagOfFieldSite[pc]]
  /\ (pc \in {"fix_problem", "fix_outline", "fix_sanity"} /\ last'.site = pc) =>
       LET tag == TagOfFieldSite[pc]
           settled == IF Correction(last'.reply, tag) # None
                        THEN Correction(last'.reply, tag)[1] ELSE Field(tag)
       IN  \/ last'.result = "raise"
           \/ /\ last'.result = "fix"
              /\ last'.out = Some(settled)
              /\ IF tag = "sanity_check"
                   THEN /\ pc' = "verify"
                        /\ IF PassesValidators(problem, solution_outline, settled)
                             THEN js' = [problem |-> problem,
                                         solution_outline |-> solution_outline,
                                         sanity_check |-> settled]
                             ELSE FromFallback(js'["problem"], js'["solution_outline"],
                                               js'["sanity_check"])
                   ELSE /\ pc' = (IF tag = "problem" THEN "ask_outline" ELSE "ask_sanity")
                        /\ FieldAfter(tag) = settled

\* C28: in the per-field tier a field that was extracted but fails its
\* validator leads to exactly one corrective call; the reply of that call
\* replaces the field only if a value is extracted from it and passes the
\* validator, otherwise the invalid value is kept and the bundle goes to the
\* fallback at the hard gate; a field that validates leads to no corrective
\* call.
C28_OneCorrectiveCall == [][C28_OneCorrectiveCall_Step]_vars

\* the corrective call for the problem was answered with a text that fails
\* the validator too: the invalid problem is kept and the outline is asked
C28_Witness ==
  /\ pc = "ask_outline"
  /\ last.site = "fix_problem"
  /\ last.result = "fix"
  /\ ExtractComputed[<<last.reply, "problem">>] # None
  /\ Correction(last.reply, "problem") = None
  /\ problem = last.out[1]
  /\ ~FieldValid("problem", problem)

\* the condition of C30 on a step: the item appended when a verdict ends it
C30_LastVerdictDecides_Step ==
  (pc = "verify" /\ last'.result = "return"
     /\ Len(candidates') = Len(candidates) + 1) =>
    LET c == candidates'[Len(candidates')]
    IN  /\ c.score = ScoreOfReply(last'.reply)
        /\ c.ch.verification.positive <=> AllTrue(last'.reply)
        /\ c.ch.problem = js["problem"]
        /\ c.ch.solution_outline = js["solution_outline"]
        /\ c.ch.verification.sanity = js["sanity_check"]
        /\ js' = js

\* C30: the score that ranks an item and the verifier note of its
\* verification field come from the last verdict obtained for the item: after
\* a revision cycle they are those of the second verdict (the positive note
\* exactly when its three booleans are true), and the problem, outline and
\* sanity text are those of the bundle that verdict judged.
C30_LastVerdictDecides == [][C30_LastVerdictDecides_Step]_vars

\* an item finished by a passing second verdict, after a first one that
\* failed and a regeneration: score 7 and the positive note
C30_Witness ==
  /\ pc \in {"generate_single", "select"}
  /\ last.site = "verify"
  /\ last.result = "return"
  /\ last.reply = "verdict_pass"
  /\ genRuns = 2
  /\ verRuns = 2
  /\ Len(candidates) = idx - 1
  /\ candidates[idx - 1].score = 7
  /\ candidates[idx - 1].ch.verification.positive
  /\ candidates[idx - 1].ch.problem = js["problem"]

\* C21: sanitizing a text that _sanitize returned gives that text back
\* unchanged, whatever entities and fences the first text held.
C21_SanitizeIdempotent == pc = "resanitized" => output.value = input

\* neither the opening nor the closing tag of field f occurs in c
DelimiterFree(c, f) ==
  \A k \in 1..Len(c) :
    OpenTagEnd(c, k, TagChars[f]) = 0 /\ CloseTagEnd(c, k, TagChars[f]) = 0

\* C22: extracting field f from a content c, free of the tags of f, wrapped
\* in the tags of f returns c stripped, character for character.
C22_WrapExtractRoundTrip ==
  pc = "extracted" =>
    \A c \in Contents :
      (input = Tagged(output.tag, c) /\ DelimiterFree(c, output.tag))
        => output.value = Some(Strip(c))

HasEchoPhrase(t) ==
  \E k \in 1..Len(_SAMPLE_ECHO_PATTERNS) : Contains(t, _SAMPLE_ECHO_PATTERNS[k])

\* C23: the validators of the problem, the outline and the sanity text
\* reject every text shorter than 120, 60 and 40 characters, and each of
\* them rejects the bare texts "true" and "false" and every text that
\* contains a sample-echo phrase.
C23_ValidatorsReject ==
  pc = "validated" =>
    /\ Len(input) < 120 => ~output.problem
    /\ Len(input) < 60 => ~output.outline
    /\ Len(input) < 40 => ~output.sanity
    /\ (input \in {<<"t", "r", "u", "e">>, <<"f", "a", "l", "s", "e">>}
          \/ HasEchoPhrase(input))
         => (~output.problem /\ ~output.outline /\ ~output.sanity)

\* a text of 119 characters that names the scenario and holds digits: the
\* validators of the outline and of the sanity text accept it, that of the
\* problem does not
C23_Witness ==
  /\ pc = "validated"
  /\ Len(input) = 119
  /\ Contains(Lower(input), Lower(polish_scenario_label(output.scenario)))
  /\ ~output.problem
  /\ output.outline
  /\ output.sanity

\* C29: without tags, the outline found after its cue ends at the next
\* tag-like token or at the next section heading, wherever the line of that
\* heading is: the text of the sanity section is no part of it.
C29_OutlineStopsAtHeading ==
  (pc = "extracted" /\ output.tag = "solution_outline") =>
    \A h \in HeadedCases :
      input = HeadedText(h) => output.value = Some(Strip(h.body))

\* the calls of allow for a key that were allowed at a reading in lo..hi
AllowedIn(key, lo, hi) ==
  {c \in 1..Len(answers) :
     /\ answers[c].key = key
     /\ answers[c].allowed
     /\ lo <= answers[c].at
     /\ answers[c].at <= hi}

\* C24: with clock readings that never decrease, the calls of allow that are
\* allowed for one key within any window of 60 seconds are never more than
\* max_per_minute.
C24_MinuteLimit ==
  \A c \in 1..Len(answers) :
    answers[c].allowed =>
      Cardinality(AllowedIn(answers[c].key, answers[c].at, answers[c].at + 60))
        <= max_per_minute

\* a call refused by the minute limit and, once its window has passed, a
\* call of the same key allowed
C24_Witness ==
  \E c, d \in 1..Len(answers) :
    /\ c < d
    /\ answers[c].key = answers[d].key
    /\ ~answers[c].allowed
    /\ answers[c].retry_after # Some(3600)
    /\ answers[d].allowed
    /\ Cardinality(AllowedIn(answers[c].key, answers[c].at - 60, answers[c].at))
         = max_per_minute

\* the first and the last second of the UTC day of reading t
DayStart(t) == (t \div 86400) * 86400

DayEnd(t) == DayStart(t) + 86399

RaisingSites ==
  {"ask_problem", "fix_problem", "ask_outline", "fix_outline", "ask_sanity",
   "fix_sanity"}

\* a step in which the regeneration of the revision cycle raises: chat
\* raises outside the try of the multi-field request, or _ask_for_tag gives
\* up with its ValueError
RegenerationRaises ==
  /\ genRuns = 2
  /\ pc \in RaisingSites
  /\ last'.site = pc
  /\ last'.result \in {"raise", "ValueError"}

\* the condition of C31 on a step
C31_RegenerationErrorKept_Step ==
  RegenerationRaises =>
    /\ pc' = "verify"
    /\ verRuns = 1 /\ verRuns' = 2
    /\ js' = js
    /\ \/ FromFallback(js["problem"], js["solution_outline"], js["sanity_check"])
       \/ PassesValidators(js["problem"], js["solution_outline"], js["sanity_check"])
    /\ err' = None

\* C31: when the regeneration of the revision cycle raises an error, the
\* item keeps the bundle of its first generation (valid or of the fallback),
\* that bundle is verified a second time, and the error goes no further.
C31_RegenerationErrorKept == [][C31_RegenerationErrorKept_Step]_vars

\* the second verification about to start on the first bundle after the
\* regeneration gave up with the ValueError of _ask_for_tag
C31_Witness ==
  /\ pc = "verify"
  /\ genRuns = 2
  /\ verRuns = 2
  /\ last.result = "ValueError"
  /\ last.site \in RaisingSites
  /\ js # None
  /\ err = None

\* 2 x (4 multi-field + 3 x (4 per-field + 1 corrective)) + 2 x 4
\* verification calls, with 4 = 1 + Retries
MostCalls ==
  2 * ((1 + Retries) + 3 * ((1 + Retries) + 1)) + 2 * (1 + Retries)

\* C32: with three retries the calls of chat made for one item are never
\* more than 46, whatever the collaborator replies, and generate_single
\* always ends, returning or raising.
C32_CallsBounded == [](calls <= MostCalls /\ MostCalls = 46) /\ <>ItemEnded

\* an item ended with 46 calls of chat made
C32_Witness == ItemEnded /\ calls = 46

\* C33: for every branch and every n >= 1 the sampling of the types ends:
\* pick_types_for_batch returns a list of pool_size(n) labels, also for a
\* branch with four types.
C33_SamplingTerminates ==
  <>(pc = "generate_single" /\ Len(types) = pool_size(n))

\* a handler of /generate is about to run its first statement
AtEndpoint == pc \in {"generate_get", "generate_post"}

\* the step an endpoint takes when the limiter refuses its request
EndpointRefused ==
  /\ AtEndpoint
  /\ Len(answers') = Len(answers) + 1
  /\ ~answers'[Len(answers')].allowed

\* the condition of C34 on a step
C34_LimitCheckedFirst_Step ==
  /\ AtEndpoint => Len(answers') = Len(answers) + 1
  /\ EndpointRefused =>
       /\ pc' = "raised"
       /\ err' # None
       /\ err'[1].type = "HTTPException"
       /\ err'[1].status_code = 429
       /\ err'[1].retry_after >= 1
       /\ UNCHANGED << n, rng, types, idx, candidates, selected, seed_tag, js,
                       genRuns, verRuns, att, problem, solution_outline,
                       sanity_check, last, calls >>
       /\ types = << >> /\ js = None /\ last = NoCall /\ calls = 0

\* C34: on both /generate endpoints the limiter is asked before anything
\* else; when it refuses, the answer is HTTP 429 with a Retry-After of at
\* least one second, and nothing is parsed, generated or asked of the
\* collaborator for that request.
C34_LimitCheckedFirst == [][C34_LimitCheckedFirst_Step]_vars

\* a POST refused by the limiter after the two requests a minute allows
C34_Witness ==
  /\ pc = "raised"
  /\ err # None
  /\ err[1].type = "HTTPException"
  /\ err[1].site = "generate_post"
  /\ err[1].status_code = 429
  /\ Len(answers) = max_per_minute + 1
  /\ calls = 0
  /\ last = NoCall

\* later is what is left of earlier when entries are dropped from its front
IsSuffix(later, earlier) ==
  /\ Len(later) <= Len(earlier)
  /\ later = SubSeq(earlier, Len(earlier) - Len(later) + 1, Len(earlier))

\* the condition of C35 on a step that is a call of allow
C35_RefusalConsumesNothing_Step ==
  Len(answers') = Len(answers) + 1 =>
    LET answer == answers'[Len(answers')]
    IN  /\ ~answer.allowed =>
             /\ IsSuffix(Lookup(_minute', answer.key, << >>),
                         Lookup(_minute, answer.key, << >>))
             /\ Lookup(_daily', answer.key, FreshRecord).count
                  = Lookup(_daily, answer.key, FreshRecord).count
        /\ \A other \in Keys \ {answer.key} :
             /\ Lookup(_minute', other, << >>) = Lookup(_minute, other, << >>)
             /\ Lookup(_daily', other, FreshRecord)
                  = Lookup(_daily, other, FreshRecord)

\* C35: a call of allow that refuses appends no timestamp to the window of
\* its key and leaves the daily count of its key as it was, and no call of
\* allow changes the window or the daily record of another key.
C35_RefusalConsumesNothing == [][C35_RefusalConsumesNothing_Step]_vars

\* a key refused by the daily limit with its count at the limit, while the
\* other key has a request in its window and in its daily count
C35_Witness ==
  /\ answers # << >>
  /\ LET answer == answers[Len(answers)]
     IN  /\ ~answer.allowed
         /\ answer.retry_after = Some(3600)
         /\ Lookup(_daily, answer.key, FreshRecord).count = max_per_day
         /\ \E other \in Keys \ {answer.key} :
              /\ Lookup(_minute, other, << >>) # << >>
              /\ Lookup(_daily, other, FreshRecord).count = 1

\* C36: with allow called from several threads for one key, in every
\* interleaving of the checks and the records the calls allowed within 60
\* seconds are never more than max_per_minute, and the calls allowed within
\* one UTC day never more than max_per_day.
C36_LimitsUnderConcurrency ==
  \A c \in 1..Len(answers) :
    answers[c].allowed =>
      /\ Cardinality(AllowedIn(answers[c].key, answers[c].at,
                               answers[c].at + 60)) <= max_per_minute
      /\ Cardinality(AllowedIn(answers[c].key, DayStart(answers[c].at),
                               DayEnd(answers[c].at))) <= max_per_day

\* the attempts of chat_completion that raised
FailedAttempts == {a \in 1..Len(tried) : ~tried[a].returned}

\* chat_completion was called again after attempt a
Repeated(a) == a < Len(tried)

\* a failure that passes with time: a status the client names, or a
\* connection that failed
Transient(e) ==
  \/ e.type = "HfHubHTTPError" /\ e.status \in {Some(429), Some(500),
                                                 Some(502), Some(503),
                                                 Some(504)}
  \/ e.type = "ConnectionError"

\* chat is over, with a reply or with an exception
ChatEnded == pc \in {"returned", "raised"}

\* the parts of C37 on the number of attempts, on HTTP errors, on the last
\* error and on how chat ends
ClientBounded ==
  /\ Len(tried) <= 4
  /\ \A a \in FailedAttempts :
       /\ Transient(tried[a].value) /\ a < 4 /\ ChatEnded => Repeated(a)
       /\ tried[a].value.type = "HfHubHTTPError" /\ ~Transient(tried[a].value)
            => /\ ~Repeated(a)
               /\ pc = "raised"
               /\ resp = Some(Raised(tried[a].value))
       /\ a = 4 /\ tried[a].value.type # "AttributeError"
            => pc = "raised" /\ resp = Some(Raised(tried[a].value))
  /\ (pc = "returned" \/ pc = "raised") <=> resp # None
  /\ pc = "returned" => resp[1].returned /\ resp[1].value \in Seq(STRING)
  /\ pc = "raised" => ~resp[1].returned /\ resp[1].value \in Failures

\* every attempt that was followed by another one failed with a transient
\* failure
OnlyTransientRepeated ==
  \A a \in 1..Len(tried) :
    Repeated(a) => ~tried[a].returned /\ Transient(tried[a].value)

\* C37 as stated: the client repeats an attempt only after a transient
\* failure, makes at most 4 attempts, tries again after HTTP 429, 500, 502,
\* 503 and 504, raises any other HTTP error at once, raises the last error
\* after the 4th failed attempt, and chat ends with a reply or an exception.
C37_RetriesOnlyTransient == OnlyTransientRepeated /\ ClientBounded

\* every attempt that was followed by another one failed with HTTP 429,
\* 500, 502, 503 or 504 or with an exception that is neither an
\* HfHubHTTPError nor an AttributeError
OnlyRetriedRepeated ==
  \A a \in 1..Len(tried) :
    Repeated(a) =>
      /\ ~tried[a].returned
      /\ \/ Transient(tried[a].value)
         \/ tried[a].value.type \notin {"HfHubHTTPError", "AttributeError"}

\* C37, amended: the client repeats an attempt only after HTTP 429, 500,
\* 502, 503 or 504 or after an exception that is no HTTP error and no
\* AttributeError, makes at most 4 attempts, raises any other HTTP error at
\* once, raises the last error after the 4th failed attempt, and chat ends
\* with a reply or an exception.
C37_RetriesBounded == OnlyRetriedRepeated /\ ClientBounded

\* four attempts, the first three ended by HTTP 503, a failed connection
\* and a rejected argument, the fourth by HTTP 429, which chat raised
C37_Witness ==
  /\ pc = "raised"
  /\ Len(tried) = 4
  /\ tried[1] = Raised(HttpError(Some(503)))
  /\ tried[2] = Raised(OtherError("ConnectionError"))
  /\ tried[3] = Raised(OtherError("TypeError"))
  /\ resp = Some(Raised(HttpError(Some(429))))

====
